---- MODULE Spec2Model ----
(***************************************************************************)
(* Rival-Scan orchestration core: the A2A agent router and client, the     *)
(* context store (facts, signals, outputs) and the fact extraction, the    *)
(* managed storage / job ledger, and the orchestrate and job endpoints of  *)
(* the orchestrator API, as state machines.                                *)
(*                                                                         *)
(* Each subsystem has its own specification (SpecRouter, SpecIntent,       *)
(* SpecFacts, SpecManaged, SpecStore, SpecJobs, LiveJobs, SpecLedger,      *)
(* SpecOrchestrate, SpecClient, SpecContext, SpecWriters, SpecExtract,     *)
(* SpecSummary, SpecOwners) over the shared variables; the variables a     *)
(* subsystem does not touch keep their initial value.  The pure functions  *)
(* of the orchestrator are applied to enumerated arguments in              *)
(* SpecConfidence and SpecInsights.                                        *)
(***************************************************************************)
EXTENDS Integers, Sequences, FiniteSets, TLC

VARIABLES
    \* ---- a2a_router.py: one route_multiple call ----
    registry,       \* AgentRegistry.agents: the registered agent names
    agent_types,    \* the agent_types argument (a list, duplicates allowed)
    entity_is_str,  \* whether the entity argument is a str
    message_given,  \* whether a custom message was passed
    results,        \* what asyncio.gather collects, by position
    task_outcome,   \* ghost: how each route_to_agent task ended, by position
    route_pc,       \* "gathering" until route_multiple returns, then "returned"
    response,       \* the envelope route_multiple returns
    \* ---- a2a_router.py: route_by_intent ----
    intent,         \* the intent text, a sequence of characters
    routed,         \* the agent type route_by_intent routed to (None before)
    \* ---- storage.py / managed_storage.py: the clock and the tables ----
    now,            \* datetime.now(), in hours
    cached_facts,   \* table cached_facts, a set of rows
    managed_storage,\* table managed_storage, a set of rows
    storage_index,  \* table storage_index, its rows in order of id
    store_log,      \* ghost: for each (entity, agent_type, data) stored so far,
                    \*        the keys store returned and the number of calls
    fact_log,       \* ghost: the last store_fact call of each (entity, fact_type)
    last_call,      \* ghost: the last storage call: its name, its arguments
                    \*        and, for a read, the rows selected and the result
    \* ---- managed_storage.py / orchestrator.py: the job ledger ----
    analysis_jobs,  \* table analysis_jobs: job id -> row
    job_pc,         \* position of run_analysis_job for each job
    alerts_pc,      \* position of a get_analysis_alerts request, per job
    last_http,      \* ghost: the last section-endpoint request and its reply
    \* ---- storage.py: the signal and output tables of the context store ----
    historical_signals, \* table historical_signals, its rows in order of id
    recent_outputs, \* table recent_outputs, its rows in order of id
    \* ---- orchestrator.py: one POST /orchestrate request ----
    request,        \* the OrchestrationRequest
    orch_pc,        \* position of the orchestrate handler
    envelope,       \* the response body orchestrate returned (NoEnvelope before)
    background_tasks, \* BackgroundTasks: the tasks added, each with its state
    \* ---- a2a_client.py: one A2AClient.invoke_agent call ----
    client_call,    \* the client's name and the arguments of the call
    client_pc,      \* the path being tried, or "returned" / "raised"
    attempts,       \* ghost: the paths posted to so far, each with its outcome
    client_result,  \* what invoke_agent returned
    \* ---- storage.py / managed_storage.py: writers on one database file ----
    writers,        \* each writer's call, its position in it and the changes
                    \*   of its open transaction
    db_lock,        \* the connection holding SQLite's write lock, or None
    commits         \* ghost: the writers in the order of their commits

routerVars  == <<registry, agent_types, entity_is_str, message_given, results,
                 task_outcome, route_pc, response>>
intentVars  == <<intent, routed>>
storeVars   == <<now, cached_facts, managed_storage, storage_index,
                 store_log, fact_log, last_call>>
jobVars     == <<analysis_jobs, job_pc, alerts_pc, last_http>>
ctxVars     == <<historical_signals, recent_outputs>>
orchVars    == <<request, orch_pc, envelope, background_tasks>>
clientVars  == <<client_call, client_pc, attempts, client_result>>
writerVars  == <<writers, db_lock, commits>>
vars        == <<routerVars, intentVars, storeVars, jobVars, ctxVars, orchVars,
                 clientVars, writerVars>>

None == "None"

(***************************************************************************)
(* Bounds of the model.                                                    *)
(***************************************************************************)
MaxTypes == 2       \* longest agent_types list of a route_multiple call
MaxTime  == 2       \* the clock runs from hour 0 to hour MaxTime
MaxFactWrites == 2  \* store_fact calls in a run of the fact store
MaxStores == 3      \* store calls in a run of the managed storage
MaxWrites == 2      \* write calls in a run of both stores together
MaxWords == 2       \* most words of an intent text

(***************************************************************************)
(* core/a2a_router.py                                                      *)
(***************************************************************************)
AgentType == {"pricing_change", "product_launch", "sentiment",
              "company_overview", "revenue_turnover"}

\* [at.value for at in AgentType], in the order of the enumeration
AgentTypeValues == <<"pricing_change", "product_launch", "sentiment",
                     "company_overview", "revenue_turnover">>

AgentNames == {"agent_ac", "agent_at", "agent_pc", "agent_sc", "agent_pl"}

\* _setup_routing: agent type -> agent name, fallback, tool, description
\* (routing_info.get("fallback") is None where no fallback is declared)
routing_map ==
    [t \in AgentType |->
        CASE t = "company_overview" ->
               [agent_name |-> "agent_ac", fallback |-> None, tool |-> "company_profile",
                description |-> "Company Overview Agent"]
          [] t = "revenue_turnover" ->
               [agent_name |-> "agent_at", fallback |-> None, tool |-> "financial_analysis",
                description |-> "Revenue/Turnover Agent"]
          [] t = "pricing_change" ->
               [agent_name |-> "agent_pc", fallback |-> None, tool |-> "price_changes",
                description |-> "Pricing Change Agent"]
          [] t = "product_launch" ->
               [agent_name |-> "agent_sc", fallback |-> "agent_pl", tool |-> "product_launches",
                description |-> "Product Launch Agent"]
          [] t = "sentiment" ->
               [agent_name |-> None, fallback |-> None, tool |-> None,
                description |-> "Sentiment Agent"]]

\* What an agent client's invoke_agent can do when awaited.
\*   ok       a JSON object without an "error" key
\*   ok_meta  a JSON object that has a "routing_metadata" key of its own
\*   ok_list  a JSON body that is not an object
\*   error    an {"error": ...} result (non-2xx status on every path)
\*   timeout  the request timed out: invoke_agent turns it into {"error": ...}
\*   raise    the await raises an Exception
ClientOutcomes == {"ok", "ok_meta", "ok_list", "error", "timeout", "raise"}

\* The registries the model starts from.
Registries == {AgentNames,
               AgentNames \ {"agent_sc"},
               AgentNames \ {"agent_sc", "agent_pl"},
               AgentNames \ {"agent_pc", "agent_at"}}

PyDict(d)      == [py |-> "dict", d |-> d, msg |-> <<>>]
PyList         == [py |-> "list", d |-> <<>>, msg |-> <<>>]
PyException(m) == [py |-> "exception", d |-> <<>>, msg |-> m]
Pending        == [py |-> "pending", d |-> <<>>, msg |-> <<>>]

HasKey(r, k) == r.py = "dict" /\ k \in DOMAIN r.d

\* AgentRegistry.get_agent
get_agent(reg, name) == IF name \in reg THEN name ELSE None

\* A "routing_metadata" value an agent put into its own response.
AgentMeta == [agent_type |-> "set by the agent", agent_name |-> "set by the agent",
              tool_used |-> "set by the agent", description |-> "set by the agent"]

\* A2AClient.invoke_agent as seen by its caller.  A str (an error message) is
\* a sequence of chunks of characters.  The plain answer of an agent carries
\* a confidence_score of 0.9 (kept in tenths) and a change_percentage of 7.
invoke_agent(name, outcome) ==
    CASE outcome = "ok"      -> PyDict("answer" :> name @@ "confidence_score" :> 9
                                     @@ "change_percentage" :> 7)
      [] outcome = "ok_meta" -> PyDict("answer" :> name @@ "routing_metadata" :> AgentMeta)
      [] outcome = "ok_list" -> PyList
      [] outcome = "error"   -> PyDict("error" :> <<"HTTP 500">>)
      [] outcome = "timeout" -> PyDict("error" :> <<"timed out">>)
      [] outcome = "raise"   -> PyException(<<"invoke raised">>)

\* route_to_agent, lines 95-103: the client of the primary handle or, when the
\* registry has none, of the declared fallback (None if neither is there)
client_for(agent_type, reg) ==
    LET routing_info == routing_map[agent_type]
        primary      == get_agent(reg, routing_info.agent_name)
        fallback     == IF routing_info.fallback # None
                        THEN get_agent(reg, routing_info.fallback) ELSE None
    IN  IF primary # None THEN primary ELSE fallback

\* The client whose invoke_agent route_to_agent awaits, None when it returns
\* or raises before line 125.
awaited(agent_type, reg, entityStr, msgGiven) ==
    IF \/ routing_map[agent_type].agent_name = None
       \/ client_for(agent_type, reg) = None
       \/ msgGiven /\ ~entityStr
    THEN None
    ELSE client_for(agent_type, reg)

\* A route that turns to the registered fallback when the invocation of the
\* primary handle failed.
route_to_agent_retrying(agent_type, reg, entityStr, msgGiven, outcome) ==
    LET routing_info == routing_map[agent_type]
        agent_client == client_for(agent_type, reg)
        retry        == IF routing_info.fallback # None
                        THEN get_agent(reg, routing_info.fallback) ELSE None
        failed       == outcome \in {"error", "timeout", "raise"}
    IN  IF /\ routing_info.agent_name # None /\ agent_client # None
           /\ ~(msgGiven /\ ~entityStr)
           /\ failed /\ retry # None /\ retry # agent_client
        THEN PyDict("answer" :> retry
                    @@ "routing_metadata" :>
                         [agent_type |-> agent_type, agent_name |-> retry,
                          tool_used |-> routing_info.tool,
                          description |-> routing_info.description])
        ELSE IF routing_info.agent_name = None \/ agent_client = None
        THEN PyDict("error" :> <<"not routed">> @@ "agent_type" :> agent_type)
        ELSE IF msgGiven /\ ~entityStr
        THEN PyException(<<"entity.lower()">>)
        ELSE IF invoke_agent(agent_client, outcome).py = "exception"
        THEN PyDict("error" :> invoke_agent(agent_client, outcome).msg
                    @@ "agent_type" :> agent_type @@ "agent_name" :> agent_client)
        ELSE IF invoke_agent(agent_client, outcome).py = "dict"
        THEN PyDict([k \in DOMAIN invoke_agent(agent_client, outcome).d
                            \cup {"routing_metadata"} |->
                       IF k = "routing_metadata"
                       THEN [agent_type |-> agent_type, agent_name |-> agent_client,
                             tool_used |-> routing_info.tool,
                             description |-> routing_info.description]
                       ELSE invoke_agent(agent_client, outcome).d[k]])
        ELSE invoke_agent(agent_client, outcome)

\* A2AAgentRouter.route_to_agent.  The result is what the coroutine returns,
\* or the exception that escapes it.
route_to_agent(agent_type, reg, entityStr, msgGiven, outcome) ==
    LET routing_info == routing_map[agent_type]
        agent_client == client_for(agent_type, reg)
        \* agent_name is rebound only when the fallback client was found
        agent_name   == agent_client
        invoked      == invoke_agent(agent_client, outcome)
    IN  IF routing_info.agent_name = None
        THEN PyDict("error" :> <<"Agent type '", agent_type, "' not available">>
                    @@ "agent_type" :> agent_type
                    @@ "available_types" :> AgentTypeValues)
        ELSE IF agent_client = None
        \* agent_name still is routing_info["agent_name"] here
        THEN PyDict("error" :> <<"Agent '", routing_info.agent_name,
                                 "' not found in registry">>
                    @@ "agent_type" :> agent_type
                    @@ "routing_info" :> routing_info)
        ELSE IF msgGiven /\ ~entityStr
        THEN PyException(<<"entity.lower()">>)  \* raised outside the try block
        ELSE IF invoked.py = "exception"
        THEN PyDict("error" :> invoked.msg @@ "agent_type" :> agent_type
                    @@ "agent_name" :> agent_name)
        ELSE IF invoked.py = "dict"
        THEN PyDict([k \in DOMAIN invoked.d \cup {"routing_metadata"} |->
                       IF k = "routing_metadata"
                       THEN [agent_type |-> agent_type, agent_name |-> agent_name,
                             tool_used |-> routing_info.tool,
                             description |-> routing_info.description]
                       ELSE invoked.d[k]])
        ELSE invoked

\* The loop of route_multiple over enumerate(agent_types), from position i on.
RECURSIVE BuildResponse(_, _, _, _)
BuildResponseNoErrorKey(i, types, res, resp) ==
    IF i > Len(types) THEN resp
    ELSE LET t == types[i]
             r == res[i]
         IN  IF r.py = "exception"
             THEN BuildResponse(i + 1, types, res,
                      [resp EXCEPT !.errors = (t :> r.msg) @@ @])
             ELSE BuildResponse(i + 1, types, res,
                      [resp EXCEPT !.agent_results = (t :> r) @@ @])

BuildResponse(i, types, res, resp) ==
    IF i > Len(types) THEN resp
    ELSE LET t == types[i]
             r == res[i]
         IN  IF r.py = "exception"
             THEN BuildResponse(i + 1, types, res,
                      [resp EXCEPT !.errors = (t :> r.msg) @@ @])
             ELSE IF HasKey(r, "error")
             THEN BuildResponse(i + 1, types, res,
                      [resp EXCEPT !.errors = (t :> r.d["error"]) @@ @])
             ELSE BuildResponse(i + 1, types, res,
                      [resp EXCEPT !.agent_results = (t :> r) @@ @])

\* A2AAgentRouter.route_multiple, after gather: the envelope
route_multiple(types, res) ==
    LET r == BuildResponse(1, types, res, [agent_results |-> <<>>, errors |-> <<>>])
    IN  [agent_results |-> r.agent_results,
         errors        |-> r.errors,
         success_count |-> Cardinality(DOMAIN r.agent_results),
         error_count   |-> Cardinality(DOMAIN r.errors)]

EmptyEnvelope == [agent_results |-> <<>>, errors |-> <<>>,
                  success_count |-> 0, error_count |-> 0]

\* How a route_to_agent task ends, from its inputs alone (ghost).
TaskOutcome(agent_type, reg, entityStr, msgGiven, outcome) ==
    LET routing_info == routing_map[agent_type]
    IN  IF routing_info.agent_name = None THEN "no_handle"
        ELSE IF routing_info.agent_name \notin reg
                /\ (routing_info.fallback = None \/ routing_info.fallback \notin reg)
        THEN "missing_handle"
        ELSE IF msgGiven /\ ~entityStr THEN "thrown"
        ELSE outcome

TypeLists == UNION {[1..n -> AgentType] : n \in 0..MaxTypes}

RouterInit ==
    /\ registry \in Registries
    /\ agent_types \in TypeLists
    /\ entity_is_str \in BOOLEAN
    /\ message_given \in BOOLEAN
    /\ results = [i \in 1..Len(agent_types) |-> Pending]
    /\ task_outcome = [i \in 1..Len(agent_types) |-> "pending"]
    /\ route_pc = "gathering"
    /\ response = EmptyEnvelope

RouterIdle ==
    /\ registry = {}
    /\ agent_types = <<>>
    /\ entity_is_str = TRUE
    /\ message_given = FALSE
    /\ results = <<>>
    /\ task_outcome = <<>>
    /\ route_pc = "returned"
    /\ response = EmptyEnvelope

\* asyncio.gather: the result of the awaitable at position i goes to
\* position i of the list gather returns.
gather_in_completion_order(res, i, r) ==
    LET k == CHOOSE k \in DOMAIN res :
                 res[k] = Pending /\ \A j \in 1..(k - 1) : res[j] # Pending
    IN  [res EXCEPT ![k] = r]

gather(res, i, r) == [res EXCEPT ![i] = r]

\* One of the gathered route_to_agent coroutines runs to its end.  The
\* coroutines complete in any order.
RouteTask ==
    /\ route_pc = "gathering"
    /\ \E i \in 1..Len(agent_types), outcome \in ClientOutcomes :
         /\ task_outcome[i] = "pending"
         /\ results' = gather(results, i,
                route_to_agent(agent_types[i], registry, entity_is_str,
                               message_given, outcome))
         /\ task_outcome' = [task_outcome EXCEPT ![i] =
                TaskOutcome(agent_types[i], registry, entity_is_str,
                            message_given, outcome)]
    /\ UNCHANGED <<registry, agent_types, entity_is_str, message_given,
                   route_pc, response>>
    /\ UNCHANGED <<intentVars, storeVars, jobVars, ctxVars, orchVars, clientVars, writerVars>>

\* gather has every result: route_multiple builds the envelope and returns.
RouteGather ==
    /\ route_pc = "gathering"
    /\ \A i \in 1..Len(agent_types) : results[i] # Pending
    /\ response' = route_multiple(agent_types, results)
    /\ route_pc' = "returned"
    /\ UNCHANGED <<registry, agent_types, entity_is_str, message_given,
                   results, task_outcome>>
    /\ UNCHANGED <<intentVars, storeVars, jobVars, ctxVars, orchVars, clientVars, writerVars>>

(***************************************************************************)
(* Python values and json.dumps / json.loads                               *)
(*                                                                         *)
(* A str is a sequence of chunks of characters, so that f-string           *)
(* concatenation is \o.  A dict is the sequence of its <<key, value>> items *)
(* in insertion order; a value is a str or an int.  JSON text is a         *)
(* sequence of tokens.                                                     *)
(***************************************************************************)
PyStr(s) == [t |-> "str", s |-> s, n |-> 0]
PyInt(n) == [t |-> "int", s |-> "", n |-> n]

\* dict.__eq__: the same items, whatever the insertion order
DictEq(a, b) == {a[i] : i \in DOMAIN a} = {b[i] : i \in DOMAIN b}
DictKeys(d)  == {d[i][1] : i \in DOMAIN d}
DictGet(d, k) == (CHOOSE i \in DOMAIN d : d[i][1] = k)

Tok(tk, s, n) == [tk |-> tk, s |-> s, n |-> n]

\* The keys of the data dicts of the model, in string order.
KeyOrder == <<"company_name", "fiscal_year", "industry">>

\* sorted(items) by key, as json.dumps(sort_keys=True) orders them
RECURSIVE SortedItems(_, _)
SortedItems(d, i) ==
    IF i > Len(KeyOrder) THEN <<>>
    ELSE (IF KeyOrder[i] \in DictKeys(d) THEN <<d[DictGet(d, KeyOrder[i])]>> ELSE <<>>)
         \o SortedItems(d, i + 1)

RECURSIVE DumpItems(_, _)
DumpItems(d, i) ==
    IF i > Len(d) THEN <<>>
    ELSE (IF i > 1 THEN <<Tok(",", "", 0)>> ELSE <<>>)
         \o << Tok("string", d[i][1], 0), Tok(":", "", 0),
               IF d[i][2].t = "str" THEN Tok("string", d[i][2].s, 0)
                                    ELSE Tok("number", "", d[i][2].n) >>
         \o DumpItems(d, i + 1)

\* json.dumps(data) and json.dumps(data, sort_keys=True)
json_dumps(d, sort_keys) ==
    <<Tok("{", "", 0)>>
    \o DumpItems(IF sort_keys THEN SortedItems(d, 1) ELSE d, 1)
    \o <<Tok("}", "", 0)>>

\* json.loads of the text of an object: item i has its key at token
\* 4i - 2 and its value at token 4i.
json_loads(text) ==
    [i \in 1..((Len(text) - 1) \div 4) |->
        << text[4 * i - 2].s,
           IF text[4 * i].tk = "string" THEN PyStr(text[4 * i].s)
                                        ELSE PyInt(text[4 * i].n) >>]

\* str(value)
Numeral(n) == CASE n = 2024 -> "2024" [] n = 2025 -> "2025" [] OTHER -> "0"
str(v) == IF v.t = "str" THEN v.s ELSE Numeral(v.n)

(***************************************************************************)
(* Time.  datetime.now() in whole hours; isoformat() strings of naive      *)
(* datetimes compare as the times do.  NoExpiry is the NULL expires_at.    *)
(***************************************************************************)
NoExpiry == -1

\* expires_at = None; if expires_in_hours: expires_at = now + hours.
\* None and 0 are both falsy.
ExpiresAt(expires_in_hours, t) ==
    IF expires_in_hours = NoExpiry \/ expires_in_hours = 0
    THEN NoExpiry
    ELSE t + expires_in_hours

\* the SQL filter  (expires_at IS NULL OR expires_at > ?)
NotExpiredUnfiltered(row, t) == TRUE

NotExpired(row, t) == row.expires_at = NoExpiry \/ row.expires_at > t

\* the SQL filter  expires_at IS NOT NULL AND expires_at < ?  of cleanup_expired
ExpiredForCleanupInclusive(row, t) == row.expires_at # NoExpiry /\ row.expires_at <= t

ExpiredForCleanup(row, t) == row.expires_at # NoExpiry /\ row.expires_at < t

\* The sequences that list the rows of S in descending order of key[row];
\* rows with equal keys come in any order.
Orderings(S, key) ==
    {q \in [1..Cardinality(S) -> S] :
        /\ \A i, j \in DOMAIN q : i # j => q[i] # q[j]
        /\ \A i, j \in DOMAIN q : i < j => key[q[i]] >= key[q[j]]}

\* LIMIT n
Limit(q, n) == IF Len(q) <= n THEN q ELSE SubSeq(q, 1, n)

Range(q) == {q[i] : i \in DOMAIN q}

(***************************************************************************)
(* core/storage.py: ContextStorage, table cached_facts                     *)
(***************************************************************************)
Entities  == {<<"Acme">>, <<"Beta">>}
FactTypes == {"company_profile", "financial_data"}

Data1  == << <<"company_name", PyStr("Acme Corp")>>, <<"fiscal_year", PyInt(2024)>> >>
Data1r == << <<"fiscal_year", PyInt(2024)>>, <<"company_name", PyStr("Acme Corp")>> >>
Data2  == << <<"company_name", PyStr("Beta")>>, <<"industry", PyStr("Retail")>> >>

\* (fact_data, confidence_score in tenths, source) of the store_fact calls
FactPayloads == { [data |-> Data1, confidence_score |-> 8, source |-> None],
                  [data |-> Data2, confidence_score |-> 5, source |-> "agent_ac"] }

\* expires_in_hours: None, 0 or 1
ExpiryArgs == {NoExpiry, 0, 1}

\* ContextStorage.store_fact: INSERT OR REPLACE under UNIQUE(entity, fact_type)
store_fact_insert(table, entity, fact_type, p, expires_in_hours, t) ==
    table \cup
      {[entity |-> entity, fact_type |-> fact_type,
        fact_data |-> json_dumps(p.data, FALSE),
        confidence_score |-> p.confidence_score, source |-> p.source,
        updated_at |-> t, expires_at |-> ExpiresAt(expires_in_hours, t)]}

store_fact(table, entity, fact_type, p, expires_in_hours, t) ==
    {r \in table : ~(r.entity = entity /\ r.fact_type = fact_type)} \cup
      {[entity |-> entity, fact_type |-> fact_type,
        fact_data |-> json_dumps(p.data, FALSE),
        confidence_score |-> p.confidence_score, source |-> p.source,
        updated_at |-> t, expires_at |-> ExpiresAt(expires_in_hours, t)]}

\* ContextStorage.get_fact: the rows its SELECT matches
get_fact_rows(table, entity, fact_type, t) ==
    {r \in table : r.entity = entity /\ r.fact_type = fact_type /\ NotExpired(r, t)}

\* the dict get_fact builds from the fetched row
get_fact_dict(r) ==
    [data |-> json_loads(r.fact_data), confidence_score |-> r.confidence_score,
     source |-> r.source, expires_at |-> r.expires_at]

\* ContextStorage.get_all_facts: the rows its SELECT matches
get_all_facts_rows(table, entity, t) ==
    {r \in table : r.entity = entity /\ NotExpired(r, t)}

\* the dict get_all_facts builds from a row
get_all_facts_dict(r) ==
    [fact_type |-> r.fact_type, data |-> json_loads(r.fact_data),
     confidence_score |-> r.confidence_score, source |-> r.source]

\* ContextStorage.cleanup_expired, the cached_facts part
cleanup_expired_facts(table, t) == {r \in table : ~ExpiredForCleanup(r, t)}

(***************************************************************************)
(* core/storage.py: historical_signals and recent_outputs                  *)
(*                                                                         *)
(* Both tables take their timestamp from DEFAULT CURRENT_TIMESTAMP, the    *)
(* text 'YYYY-MM-DD HH:MM:SS'; datetime.isoformat() is the text            *)
(* 'YYYY-MM-DDTHH:MM:SS'.  A timestamp text is its date, its separator and *)
(* its time of day; the server's clock is taken to run on UTC, so that     *)
(* datetime.now() and CURRENT_TIMESTAMP name the same hour.                *)
(***************************************************************************)
HoursPerDay == 24
SecondsPerDay == 86400
DefaultTtlSeconds == 3600
DefaultHoursBack == 168
NULL == -1

sqlite_timestamp(t) == [date |-> t \div HoursPerDay, sep |-> " ", time |-> t % HoursPerDay]
isoformat(t)        == [date |-> t \div HoursPerDay, sep |-> "T", time |-> t % HoursPerDay]

\* julianday(text) * 24: the hour a timestamp text names
julianday(ts) == ts.date * HoursPerDay + ts.time

\* the code point of the separator character
SepCode(c) == IF c = " " THEN 32 ELSE 84

\* a > b of two TEXT values, character by character
TextGreater(a, b) ==
    \/ a.date > b.date
    \/ a.date = b.date /\ SepCode(a.sep) > SepCode(b.sep)
    \/ a.date = b.date /\ a.sep = b.sep /\ a.time > b.time

\* store_signal: one INSERT.  A falsy signal_data (None or {}) is stored as
\* NULL, here the empty text.
store_signal_replace(table, entity, signal_type, signal_value, signal_data, t) ==
    SelectSeq(table, LAMBDA r : ~(r.entity = entity /\ r.signal_type = signal_type))
    \o <<[entity |-> entity, signal_type |-> signal_type,
          signal_value |-> signal_value,
          signal_data |-> IF signal_data = <<>> THEN <<>>
                          ELSE json_dumps(signal_data, FALSE),
          timestamp |-> sqlite_timestamp(t), metadata |-> <<>>]>>

store_signal(table, entity, signal_type, signal_value, signal_data, t) ==
    Append(table, [entity |-> entity, signal_type |-> signal_type,
                   signal_value |-> signal_value,
                   signal_data |-> IF signal_data = <<>> THEN <<>>
                                   ELSE json_dumps(signal_data, FALSE),
                   timestamp |-> sqlite_timestamp(t), metadata |-> <<>>])

\* get_signals: the ids selected by the WHERE clause; signal_type <<>> is
\* the absent (falsy) filter
get_signals_rows(table, entity, signal_type, hours_back, t) ==
    LET cutoff_time == isoformat(t - hours_back)
    IN  {i \in DOMAIN table :
            /\ table[i].entity = entity
            /\ signal_type # <<>> => table[i].signal_type = signal_type
            /\ TextGreater(table[i].timestamp, cutoff_time)}

get_signals_dict(row) ==
    [signal_type |-> row.signal_type, signal_value |-> row.signal_value,
     signal_data |-> IF row.signal_data # <<>> THEN json_loads(row.signal_data) ELSE <<>>,
     timestamp |-> row.timestamp, metadata |-> <<>>]

\* store_output: one INSERT; output_text is json.dumps(output_data)
store_output(table, request_id, entity, agent_name, output_text, ttl_seconds, t) ==
    Append(table, [request_id |-> request_id, entity |-> entity,
                   agent_name |-> agent_name, output_data |-> output_text,
                   timestamp |-> sqlite_timestamp(t), ttl_seconds |-> ttl_seconds])

\* (julianday('now') - julianday(timestamp)) * 86400 > ttl_seconds
output_expired_never(row, t) == FALSE

output_expired(row, t) ==
    (t - julianday(row.timestamp)) * (SecondsPerDay \div HoursPerDay) > row.ttl_seconds

\* DELETE FROM recent_outputs WHERE ... > ttl_seconds
cleanup_expired_outputs(table, t) ==
    SelectSeq(table, LAMBDA r : ~output_expired(r, t))

\* get_recent_outputs, the SELECT: the ids selected; agent_name <<>> is the
\* absent filter
get_recent_outputs_rows(table, entity, agent_name) ==
    {i \in DOMAIN table :
        /\ table[i].entity = entity
        /\ agent_name # <<>> => table[i].agent_name = agent_name}

get_recent_outputs_dict(row) ==
    [request_id |-> row.request_id, agent_name |-> row.agent_name,
     output_data |-> json_loads(row.output_data), timestamp |-> row.timestamp]

(***************************************************************************)
(* core/storage.py: the calls on cached_facts                              *)
(***************************************************************************)
NoArgs == [t |-> <<>>, n |-> 0, purged |-> 0]

Call(op) == [op |-> op, at |-> now, entity |-> <<>>, include_expired |-> FALSE,
             args |-> NoArgs, rows |-> <<>>, out |-> <<>>]

Read(op, entity, include_expired, rows, out) ==
    [op |-> op, at |-> now, entity |-> entity, include_expired |-> include_expired,
     args |-> NoArgs, rows |-> rows, out |-> out]

\* ghost: the number of store_fact calls so far
RECURSIVE SumWrites(_)
SumWrites(keys) ==
    IF keys = {} THEN 0
    ELSE LET k == CHOOSE k \in keys : TRUE
         IN  fact_log[k].n + SumWrites(keys \ {k})

FactWrites == SumWrites(DOMAIN fact_log)

StoreFact(K, P, H, maxWrites) ==
    /\ FactWrites < maxWrites
    /\ \E key \in K, p \in P, h \in H :
         LET entity == key[1]
             fact_type == key[2]
             n   == IF key \in DOMAIN fact_log THEN fact_log[key].n ELSE 0
         IN  /\ cached_facts' = store_fact(cached_facts, entity, fact_type, p, h, now)
             /\ fact_log' = (key :> [data |-> p.data,
                                     confidence_score |-> p.confidence_score,
                                     source |-> p.source,
                                     expires_in_hours |-> h, at |-> now,
                                     n |-> n + 1]) @@ fact_log
    /\ last_call' = Call("store_fact")
    /\ UNCHANGED <<now, managed_storage, storage_index, store_log>>
    /\ UNCHANGED <<routerVars, intentVars, jobVars, ctxVars, orchVars, clientVars, writerVars>>

GetFact(E, T) ==
    /\ \E entity \in E, fact_type \in T :
         LET rows == get_fact_rows(cached_facts, entity, fact_type, now)
         IN  \E q \in {Limit(o, 1) : o \in Orderings(rows, [r \in rows |-> r.updated_at])} :  \* fetchone
               last_call' = Read("get_fact", entity, FALSE, q,
                                 [i \in DOMAIN q |-> get_fact_dict(q[i])])
    /\ UNCHANGED <<now, cached_facts, managed_storage, storage_index, store_log, fact_log>>
    /\ UNCHANGED <<routerVars, intentVars, jobVars, ctxVars, orchVars, clientVars, writerVars>>

GetAllFacts(E) ==
    /\ \E entity \in E :
         LET rows == get_all_facts_rows(cached_facts, entity, now)
         IN  \E q \in Orderings(rows, [r \in rows |-> r.updated_at]) :
            last_call' = Read("get_all_facts", entity, FALSE, q,
                              [i \in DOMAIN q |-> get_all_facts_dict(q[i])])
    /\ UNCHANGED <<now, cached_facts, managed_storage, storage_index, store_log, fact_log>>
    /\ UNCHANGED <<routerVars, intentVars, jobVars, ctxVars, orchVars, clientVars, writerVars>>

FactsCleanupExpired ==
    /\ cached_facts' = cleanup_expired_facts(cached_facts, now)
    /\ recent_outputs' = cleanup_expired_outputs(recent_outputs, now)
    /\ last_call' = Call("cleanup_expired")
    /\ UNCHANGED <<now, managed_storage, storage_index, store_log, fact_log>>
    /\ UNCHANGED historical_signals
    /\ UNCHANGED <<routerVars, intentVars, jobVars, orchVars, clientVars, writerVars>>

\* An hour passes.
Tick ==
    /\ now < MaxTime
    /\ now' = now + 1
    /\ last_call' = Call("tick")
    /\ UNCHANGED <<cached_facts, managed_storage, storage_index, store_log, fact_log>>
    /\ UNCHANGED <<routerVars, intentVars, jobVars, ctxVars, orchVars, clientVars, writerVars>>

StoreInit ==
    /\ now = 0
    /\ cached_facts = {}
    /\ managed_storage = {}
    /\ storage_index = <<>>
    /\ store_log = <<>>
    /\ fact_log = <<>>
    /\ last_call = Call("none")

StoreIdle == StoreInit

(***************************************************************************)
(* The analysis jobs: the analysis_jobs table of core/managed_storage.py,  *)
(* and create_analysis_job, run_analysis_job and the section and alerts    *)
(* endpoints of core/orchestrator.py.                                      *)
(*                                                                         *)
(* The value of an agent_output is kept by its shape: "dict" a non-empty   *)
(* object, "list" a non-empty array, "null"; "empty_dict" is the {} that   *)
(* the .get defaults and the "or {}" of the endpoints produce.  A job      *)
(* result is absent ("none"), the final_result of a finished run ("final") *)
(* or the {"error": ...} of a failed one ("error").                        *)
(***************************************************************************)
JobIds == {"job-1", "job-2"}     \* the uuid4 values of create_analysis_job
UnknownId == "job-x"             \* an id no job was created with

\* what json.loads of the model's reply can be
Shapes == {"dict", "list", "null"}

NoResult == [kind |-> "none", overview |-> "absent", revenue |-> "absent",
             errors |-> {}, alerts |-> FALSE]
ErrorResult == [kind |-> "error", overview |-> "absent", revenue |-> "absent",
                errors |-> {}, alerts |-> FALSE]

\* How the generation of a section ends: client.models.generate_content (or
\* anything else in the section's try) raises, the reply is not JSON
\* (json.JSONDecodeError), or json.loads gives a value of one of the shapes.
EngineOutcomes == {"raise", "unparsable"} \cup Shapes

\* One section of run_analysis_job: what it leaves under results (the parsed
\* value, or the fallback dict after a JSONDecodeError) and whether it wrote
\* str(e) under errors
generate_section_unnamed(outcome) ==
    [output |-> CASE outcome = "raise" -> "absent"
                  [] outcome = "unparsable" -> "dict"
                  [] OTHER -> outcome,
     error |-> FALSE]

generate_section(outcome) ==
    CASE outcome = "raise" -> [output |-> "absent", error |-> TRUE]
      [] outcome = "unparsable" -> [output |-> "dict", error |-> FALSE]
      [] OTHER -> [output |-> outcome, error |-> FALSE]

\* final_result of run_analysis_job after its two generated sections;
\* "absent" is a section with no entry under results
final_result(overview, revenue) ==
    [kind |-> "final", overview |-> overview.output, revenue |-> revenue.output,
     errors |-> {"company_overview" : x \in {overview.error} \ {FALSE}}
                \cup {"revenue_turnover" : x \in {revenue.error} \ {FALSE}},
     alerts |-> FALSE]

NoJob == [entity |-> <<>>, status |-> "absent", result |-> NoResult,
          created_at |-> NULL, updated_at |-> NULL]

\* ManagedStorage.create_job
create_job(jobs, job_id, entity, status, t) ==
    (job_id :> [entity |-> entity, status |-> status, result |-> NoResult,
                created_at |-> t, updated_at |-> t]) @@ jobs

\* a result argument of {}
EmptyResult == [kind |-> "empty", overview |-> "absent", revenue |-> "absent",
                errors |-> {}, alerts |-> FALSE]

\* if result:  -- None (NoResult) and {} are falsy
result_given(result) == result.kind \notin {"none", "empty"}

\* ManagedStorage.update_job: the result column is written only if result is truthy
update_job(jobs, job_id, status, result, t) ==
    IF job_id \in DOMAIN jobs
    THEN [jobs EXCEPT ![job_id] =
            [@ EXCEPT !.status = status,
                      !.result = IF result_given(result) THEN result ELSE @,
                      !.updated_at = t]]
    ELSE jobs

\* update_job raising: the exception comes before commit, the row is as it was
failed_update_applied(jobs, job_id, status, result) ==
    update_job(jobs, job_id, status, result, now)

failed_update(jobs, job_id, status, result) == jobs

\* ManagedStorage.get_job
get_job(jobs, job_id) == IF job_id \in DOMAIN jobs THEN jobs[job_id] ELSE NoJob

\* if not job or not job.get("result")
not_found(job) == job.status = "absent" \/ job.result.kind = "none"

\* job["result"].get("results", {}).get(agent, {}).get("agent_output", {})
get_agent_output(result, agent) ==
    IF result.kind # "final" THEN "empty_dict"
    ELSE CASE agent = "company_overview" ->
                 IF result.overview = "absent" THEN "empty_dict" ELSE result.overview
           [] agent = "revenue_turnover" ->
                 IF result.revenue = "absent" THEN "empty_dict" ELSE result.revenue
           [] agent \in {"pricing_change", "product_launch", "sentiment"} -> "dict"
           [] agent = "alerts_agent" -> IF result.alerts THEN "dict" ELSE "empty_dict"
           [] OTHER -> "empty_dict"

Truthy(x) == x \in {"dict", "list"}
or_empty(x) == IF Truthy(x) THEN x ELSE "empty_dict"         \* x or {}
IsDict(x) == x \in {"dict", "empty_dict"}                     \* x has .get

Response(code, keys) == [code |-> code, keys |-> keys]
NotFound == Response(404, {"detail"})
NotComplete == Response(409, {"error"})
ServerError == Response(500, {})       \* an exception leaves the handler

OverviewFields == {"company_name", "industry", "headquarters", "market_position",
                   "key_products", "employee_count", "founded_year", "business_model"}

\* dict(output) raises unless output is a dict
get_analysis_overview(job) ==
    IF not_found(job) THEN NotFound
    ELSE LET output == get_agent_output(job.result, "company_overview")
         IN  IF IsDict(output)
             THEN Response(200, (IF output = "dict" THEN OverviewFields ELSE {})
                                  \cup {"confidence"})
             ELSE ServerError

get_analysis_offerings(job) ==
    IF not_found(job) THEN NotFound
    ELSE Response(200, {"product_launches", "pricing_changes", "confidence"})

get_analysis_signals(job) ==
    IF not_found(job) THEN NotFound
    ELSE LET fin == or_empty(get_agent_output(job.result, "revenue_turnover"))
         IN  IF IsDict(fin)
             THEN Response(200, {"financials", "competitor_trend", "graph_data",
                                 "confidence"})
             ELSE ServerError

get_analysis_sentiment(job) ==
    IF not_found(job) THEN NotFound
    ELSE Response(200, {"sentiment_summary", "sentiment_score", "risks",
                        "opportunities", "confidence"})

build_executive_summary(result) ==
    LET ov  == or_empty(get_agent_output(result, "company_overview"))
        fin == or_empty(get_agent_output(result, "revenue_turnover"))
    IN  IF IsDict(ov) /\ IsDict(fin)
        THEN Response(200, {"summary", "key_highlights", "overall_outlook"})
        ELSE ServerError

get_executive_summary(job) ==
    IF not_found(job) THEN NotFound
    ELSE IF job.status # "completed" THEN NotComplete
    ELSE build_executive_summary(job.result)

\* classify_risk_severity calls fin.get
get_risks(job) ==
    IF not_found(job) THEN NotFound
    ELSE IF job.status # "completed" THEN NotComplete
    ELSE LET fin == or_empty(get_agent_output(job.result, "revenue_turnover"))
         IN  IF IsDict(fin) THEN Response(200, {"risks"}) ELSE ServerError

generate_followups(result) ==
    LET ov  == or_empty(get_agent_output(result, "company_overview"))
        fin == or_empty(get_agent_output(result, "revenue_turnover"))
    IN  IF IsDict(ov) /\ IsDict(fin) THEN Response(200, {"questions"}) ELSE ServerError

get_followups(job) ==
    IF not_found(job) THEN NotFound
    ELSE IF job.status # "completed" THEN NotComplete
    ELSE generate_followups(job.result)

\* get_analysis_alerts up to the call of the alerts agent; code 0 stands for
\* "goes on to generate"
Generating == Response(0, {})

get_analysis_alerts(job) ==
    IF not_found(job) THEN NotFound
    ELSE IF job.status # "completed" THEN NotComplete
    ELSE IF get_agent_output(job.result, "alerts_agent") = "dict"
         THEN Response(200, {"alerts", "summary"})
    ELSE IF ~IsDict(or_empty(get_agent_output(job.result, "company_overview")))
         THEN ServerError
    ELSE Generating

DerivedSections == {"overview", "offerings", "market-signals", "sentiment",
                    "executive-summary", "risks", "follow-ups"}

section_response(section, job) ==
    CASE section = "overview"          -> get_analysis_overview(job)
      [] section = "offerings"         -> get_analysis_offerings(job)
      [] section = "market-signals"    -> get_analysis_signals(job)
      [] section = "sentiment"         -> get_analysis_sentiment(job)
      [] section = "executive-summary" -> get_executive_summary(job)
      [] section = "risks"             -> get_risks(job)
      [] section = "follow-ups"        -> get_followups(job)

\* ghost: a request, the job row its handler read, and its response
Http(job_id, section, job, resp) ==
    [job_id |-> job_id, section |-> section, status_seen |-> job.status,
     has_result |-> job.result.kind # "none", code |-> resp.code, keys |-> resp.keys]

NoHttp == Http("", "none", NoJob, Response(0, {}))

Without(f, x) == [y \in DOMAIN f \ {x} |-> f[y]]

JobsInit ==
    /\ analysis_jobs = <<>>
    /\ job_pc = <<>>
    /\ alerts_pc = <<>>
    /\ last_http = NoHttp

JobsIdle == JobsInit

\* POST /api/analysis/create
CreateAnalysisJob ==
    /\ \E job_id \in JobIds \ DOMAIN analysis_jobs :
         /\ analysis_jobs' = create_job(analysis_jobs, job_id, <<"Acme">>, "queued", now)
         /\ job_pc' = (job_id :> "scheduled") @@ job_pc
         /\ last_http' = Http(job_id, "create", NoJob,
                              Response(200, {"job_id", "status", "created_at"}))
    /\ UNCHANGED alerts_pc
    /\ UNCHANGED <<routerVars, intentVars, storeVars, ctxVars, orchVars, clientVars, writerVars>>

\* run_analysis_job, its first statement: update_job(job_id, "analyzing")
RunStart ==
    /\ \E job_id \in DOMAIN job_pc :
         /\ job_pc[job_id] = "scheduled"
         /\ \/ /\ analysis_jobs' = update_job(analysis_jobs, job_id, "analyzing", NoResult, now)
               /\ job_pc' = [job_pc EXCEPT ![job_id] = "analyzing"]
            \/ /\ analysis_jobs' = failed_update(analysis_jobs, job_id, "analyzing", NoResult)
               /\ job_pc' = [job_pc EXCEPT ![job_id] = "except"]
    /\ UNCHANGED <<alerts_pc, last_http>>
    /\ UNCHANGED <<routerVars, intentVars, storeVars, ctxVars, orchVars, clientVars, writerVars>>

\* run_analysis_job, from the generation of the outputs to
\* update_job(job_id, "completed", final_result)
RunFinish ==
    /\ \E job_id \in DOMAIN job_pc :
         /\ job_pc[job_id] = "analyzing"
         /\ \E overview \in EngineOutcomes, revenue \in EngineOutcomes :
              LET result == final_result(generate_section(overview),
                                         generate_section(revenue))
              IN  \/ /\ analysis_jobs' = update_job(analysis_jobs, job_id, "completed", result, now)
                     /\ job_pc' = [job_pc EXCEPT ![job_id] = "done"]
                  \/ /\ analysis_jobs' = failed_update(analysis_jobs, job_id, "completed", result)
                     /\ job_pc' = [job_pc EXCEPT ![job_id] = "except"]
    /\ UNCHANGED <<alerts_pc, last_http>>
    /\ UNCHANGED <<routerVars, intentVars, storeVars, ctxVars, orchVars, clientVars, writerVars>>

\* run_analysis_job, the handler of the outer except
run_except_reraise(jobs, job_id) == jobs

run_except(jobs, job_id) == update_job(jobs, job_id, "failed", ErrorResult, now)

\* run_analysis_job, the outer except: update_job(job_id, "failed", {"error": ...}),
\* which may raise in its turn and end the task ("raised")
RunExcept ==
    /\ \E job_id \in DOMAIN job_pc :
         /\ job_pc[job_id] = "except"
         /\ \/ /\ analysis_jobs' = run_except(analysis_jobs, job_id)
               /\ job_pc' = [job_pc EXCEPT ![job_id] = "done"]
            \/ /\ analysis_jobs' = failed_update(analysis_jobs, job_id, "failed", ErrorResult)
               /\ job_pc' = [job_pc EXCEPT ![job_id] = "raised"]
    /\ UNCHANGED <<alerts_pc, last_http>>
    /\ UNCHANGED <<routerVars, intentVars, storeVars, ctxVars, orchVars, clientVars, writerVars>>

\* GET /api/analysis/{job_id}/{section} for the seven derived sections
GetSection ==
    /\ \E job_id \in JobIds \cup {UnknownId}, section \in DerivedSections :
         LET job == get_job(analysis_jobs, job_id)
         IN  last_http' = Http(job_id, section, job, section_response(section, job))
    /\ UNCHANGED <<analysis_jobs, job_pc, alerts_pc>>
    /\ UNCHANGED <<routerVars, intentVars, storeVars, ctxVars, orchVars, clientVars, writerVars>>

\* GET /api/analysis/{job_id}/alerts up to the call of the alerts agent
AlertsStart ==
    /\ \E job_id \in (JobIds \cup {UnknownId}) \ DOMAIN alerts_pc :
         LET job  == get_job(analysis_jobs, job_id)
             resp == get_analysis_alerts(job)
         IN  IF resp = Generating
             THEN /\ alerts_pc' = (job_id :> job) @@ alerts_pc
                  /\ UNCHANGED last_http
             ELSE /\ last_http' = Http(job_id, "alerts", job, resp)
                  /\ UNCHANGED alerts_pc
    /\ UNCHANGED <<analysis_jobs, job_pc>>
    /\ UNCHANGED <<routerVars, intentVars, storeVars, ctxVars, orchVars, clientVars, writerVars>>

\* the alerts agent returns: on success the handler writes the result back with
\* update_job(job_id, job["status"], full), job being the row it read at the start
AlertsFinish ==
    /\ \E job_id \in DOMAIN alerts_pc, success \in BOOLEAN :
         LET job == alerts_pc[job_id]
         IN  /\ alerts_pc' = Without(alerts_pc, job_id)
             /\ IF success
                THEN /\ analysis_jobs' = update_job(analysis_jobs, job_id, job.status,
                                                    [job.result EXCEPT !.alerts = TRUE], now)
                     /\ last_http' = Http(job_id, "alerts", job,
                                          Response(200, {"alerts", "summary"}))
                ELSE /\ UNCHANGED analysis_jobs
                     /\ last_http' = Http(job_id, "alerts", job, Response(500, {"error"}))
    /\ UNCHANGED job_pc
    /\ UNCHANGED <<routerVars, intentVars, storeVars, ctxVars, orchVars, clientVars, writerVars>>

(***************************************************************************)
(* The fact store on its own.                                              *)
(***************************************************************************)
\* the (entity, fact_type) keys the runs of the fact store write
FactKeys == {<< <<"Acme">>, "company_profile">>, << <<"Acme">>, "financial_data">>,
             << <<"Beta">>, "company_profile">>}

(***************************************************************************)
(* core/storage.py: the calls on historical_signals and recent_outputs     *)
(***************************************************************************)
ReadWith(op, entity, args, rows, out) ==
    [op |-> op, at |-> now, entity |-> entity, include_expired |-> FALSE,
     args |-> args, rows |-> rows, out |-> out]

\* (entity, signal_type, signal_value, signal_data) of the store_signal calls
SignalArgs ==
    { [entity |-> <<"Acme">>, signal_type |-> <<"price_change">>,
       signal_value |-> 5, signal_data |-> Data1],
      [entity |-> <<"Beta">>, signal_type |-> <<"product_launch">>,
       signal_value |-> NULL, signal_data |-> <<>>] }

SignalTypeArgs == {<<>>, <<"price_change">>}
HoursBackArgs == {1, DefaultHoursBack}

\* (entity, agent_name, ttl_seconds) of the store_output calls
OutputArgs ==
    { [entity |-> <<"Acme">>, agent_name |-> <<"agent_ac">>, ttl_seconds |-> DefaultTtlSeconds],
      [entity |-> <<"Beta">>, agent_name |-> <<"agent_pc">>, ttl_seconds |-> 2 * DefaultTtlSeconds] }

AgentNameArgs == {<<>>, <<"agent_ac">>}
LimitArgs == {1, 10}

\* the store_fact calls made and the rows of the signal and output tables
ContextWrites == FactWrites + Len(historical_signals) + Len(recent_outputs)

StoreSignal(maxWrites) ==
    /\ ContextWrites < maxWrites
    /\ \E a \in SignalArgs :
         historical_signals' = store_signal(historical_signals, a.entity, a.signal_type,
                                            a.signal_value, a.signal_data, now)
    /\ last_call' = Call("store_signal")
    /\ UNCHANGED <<now, cached_facts, managed_storage, storage_index, store_log, fact_log>>
    /\ UNCHANGED recent_outputs
    /\ UNCHANGED <<routerVars, intentVars, jobVars, orchVars, clientVars, writerVars>>

GetSignals ==
    /\ \E entity \in Entities, signal_type \in SignalTypeArgs, hours_back \in HoursBackArgs :
         LET ids == get_signals_rows(historical_signals, entity, signal_type,
                                     hours_back, now)
         IN  \E q \in Orderings(ids, [i \in ids |-> julianday(historical_signals[i].timestamp)]) :
               last_call' = ReadWith("get_signals", entity,
                                [t |-> signal_type, n |-> hours_back, purged |-> 0],
                                [i \in DOMAIN q |-> historical_signals[q[i]]],
                                [i \in DOMAIN q |-> get_signals_dict(historical_signals[q[i]])])
    /\ UNCHANGED <<now, cached_facts, managed_storage, storage_index, store_log, fact_log>>
    /\ UNCHANGED <<routerVars, intentVars, jobVars, ctxVars, orchVars, clientVars, writerVars>>

StoreOutput(maxWrites) ==
    /\ ContextWrites < maxWrites
    /\ \E a \in OutputArgs :
         recent_outputs' = store_output(recent_outputs,
                               [entity |-> a.entity, agent_name |-> a.agent_name, at |-> now],
                               a.entity, a.agent_name, json_dumps(Data1, FALSE),
                               a.ttl_seconds, now)
    /\ last_call' = Call("store_output")
    /\ UNCHANGED <<now, cached_facts, managed_storage, storage_index, store_log, fact_log>>
    /\ UNCHANGED historical_signals
    /\ UNCHANGED <<routerVars, intentVars, jobVars, orchVars, clientVars, writerVars>>

\* get_recent_outputs: the DELETE of the expired outputs, then the SELECT
GetRecentOutputs ==
    /\ recent_outputs' = cleanup_expired_outputs(recent_outputs, now)
    /\ \E entity \in Entities, agent_name \in AgentNameArgs, limit \in LimitArgs :
         LET table == cleanup_expired_outputs(recent_outputs, now)
             ids   == get_recent_outputs_rows(table, entity, agent_name)
         IN  \E o \in Orderings(ids, [i \in ids |-> julianday(table[i].timestamp)]) :
               LET q == Limit(o, limit)
               IN  last_call' = ReadWith("get_recent_outputs", entity,
                                    [t |-> agent_name, n |-> limit,
                                     purged |-> Len(recent_outputs) - Len(table)],
                                    [i \in DOMAIN q |-> table[q[i]]],
                                    [i \in DOMAIN q |-> get_recent_outputs_dict(table[q[i]])])
    /\ UNCHANGED <<now, cached_facts, managed_storage, storage_index, store_log, fact_log>>
    /\ UNCHANGED historical_signals
    /\ UNCHANGED <<routerVars, intentVars, jobVars, orchVars, clientVars, writerVars>>

ContextInit ==
    /\ historical_signals = <<>>
    /\ recent_outputs = <<>>

ContextIdle == ContextInit

(***************************************************************************)
(* core/orchestrator.py: POST /orchestrate.  Router mode is                *)
(* request.use_router and a non-empty request.agent_types; legacy mode is  *)
(* otherwise a non-empty request.agents; default mode is the rest.         *)
(***************************************************************************)
OrchEntity == <<"Acme">>

\* The type strings a request is built from; "bogus" is no AgentType.
OrchTypeStrs == {"company_overview", "product_launch", "sentiment", "bogus"}

OrchRegistries == {AgentNames, AgentNames \ {"agent_sc", "agent_pl"}}

\* request.agents of the legacy mode; "agent_zz" is in no registry.
LegacyAgents == <<"agent_ac", "agent_zz", "agent_pl">>

\* Optional[List[str]]: None and [] are both falsy and both the empty list
\* here.  The first set is the requests of the router mode, the second one
\* the requests with agents, the third one the requests with no agents that
\* do not enter the router mode.
Requests ==
    [agent_types : UNION {[1..n -> OrchTypeStrs] : n \in 1..MaxTypes},
     agents : {<<>>}, use_router : {TRUE},
     include_context : BOOLEAN, store_outputs : BOOLEAN, extract_facts : BOOLEAN]
    \cup
    [agent_types : {<<>>, <<"sentiment">>},
     agents : {LegacyAgents}, use_router : BOOLEAN,
     include_context : BOOLEAN, store_outputs : BOOLEAN, extract_facts : {TRUE}]
    \cup
    {r \in [agent_types : {<<>>, <<"sentiment">>},
            agents : {<<>>}, use_router : BOOLEAN,
            include_context : {TRUE}, store_outputs : {TRUE}, extract_facts : {TRUE}] :
        r.use_router = (r.agent_types = <<>>)}

\* if request.use_router and request.agent_types: / elif request.agents: / else:
Mode(req) ==
    IF req.use_router /\ req.agent_types # <<>> THEN "router"
    ELSE IF req.agents # <<>> THEN "legacy"
    ELSE "default"

\* all_types of the default mode
all_types == <<"company_overview", "revenue_turnover",
               "pricing_change", "product_launch">>

NoEnvelope == [status |-> "no response yet"]

\* ContextBuilder.build_context, the counts enrich_with_context keeps.
\* get_recent_outputs deletes the expired outputs first and reads with limit=20.
build_context(facts, signals, outputs, entity, t) ==
    LET kept == cleanup_expired_outputs(outputs, t)
        n    == Cardinality(get_recent_outputs_rows(kept, entity, <<>>))
    IN  [facts_count   |-> Cardinality(get_all_facts_rows(facts, entity, t)),
         signals_count |-> Cardinality(get_signals_rows(signals, entity, <<>>,
                                                        DefaultHoursBack, t)),
         outputs_count |-> IF n > 20 THEN 20 ELSE n]

\* The positions of agent_types whose result route_multiple put into
\* agent_results.
Succeeded(res) ==
    {i \in DOMAIN res : res[i].py # "exception" /\ ~HasKey(res[i], "error")}

\* router_results["agent_results"].items(): the keys in insertion order, each
\* key at the place of its first successful position.
RECURSIVE ItemOrder(_, _, _)
ItemOrder(i, types, res) ==
    IF i > Len(types) THEN <<>>
    ELSE (IF i \in Succeeded(res)
             /\ \A j \in 1..(i - 1) : ~(j \in Succeeded(res) /\ types[j] = types[i])
          THEN <<types[i]>> ELSE <<>>)
         \o ItemOrder(i + 1, types, res)

\* BackgroundTasks.add_task.  Starlette runs the tasks after the response has
\* been sent.
add_task_run_now(tasks, func, arg) ==
    Append(tasks, [func |-> func, arg |-> arg, state |-> "done"])

add_task(tasks, func, arg) ==
    Append(tasks, [func |-> func, arg |-> arg, state |-> "scheduled"])

\* The loop over router_results["agent_results"].items(), from item k on.
\* st is [agent_results, outputs, tasks].
RECURSIVE ProcessResults(_, _, _, _, _)
ProcessResults(k, order, router_results, req, st) ==
    IF k > Len(order) THEN st
    ELSE LET agent_type_str == order[k]
             agent_output   == router_results.agent_results[agent_type_str]
             context  == build_context(cached_facts, historical_signals, st.outputs,
                                       OrchEntity, now)
             enriched == [entity |-> OrchEntity, agent_name |-> agent_type_str,
                          agent_output |-> agent_output, context |-> context]
             plain    == [agent_type |-> agent_type_str, output |-> agent_output]
             kept     == cleanup_expired_outputs(st.outputs, now)
             stored   == IF req.include_context
                         THEN IF req.store_outputs
                              THEN store_output(kept,
                                       [entity |-> OrchEntity,
                                        agent_name |-> <<agent_type_str>>, at |-> now],
                                       OrchEntity, <<agent_type_str>>,
                                       <<agent_output>>, DefaultTtlSeconds, now)
                              ELSE kept
                         ELSE st.outputs
             tasks    == IF req.extract_facts
                         THEN add_task(st.tasks, "extract_and_store_facts", agent_type_str)
                         ELSE st.tasks
         IN  ProcessResults(k + 1, order, router_results, req,
                 [agent_results |-> (agent_type_str :>
                                        IF req.include_context THEN enriched ELSE plain)
                                    @@ st.agent_results,
                  outputs |-> stored,
                  tasks   |-> tasks])

\* The loop of the legacy mode over request.agents, from agent k on; outs[k]
\* is what invoke_agent does for agent k.  st is [agent_results, errors,
\* outputs, tasks].
RECURSIVE LegacyLoop(_, _, _, _, _, _)
LegacyLoop(k, agents, outs, reg, req, st) ==
    IF k > Len(agents) THEN st
    ELSE LET agent_name == agents[k]
             agent      == get_agent(reg, agent_name)
             rsp        == invoke_agent(agent_name, outs[k])
             context  == build_context(cached_facts, historical_signals, st.outputs,
                                       OrchEntity, now)
             enriched == [entity |-> OrchEntity, agent_name |-> agent_name,
                          agent_output |-> rsp, context |-> context]
             plain    == [agent_name |-> agent_name, output |-> rsp]
             kept     == cleanup_expired_outputs(st.outputs, now)
             stored   == IF req.include_context
                         THEN IF req.store_outputs
                              THEN store_output(kept,
                                       [entity |-> OrchEntity,
                                        agent_name |-> <<agent_name>>, at |-> now],
                                       OrchEntity, <<agent_name>>,
                                       <<rsp>>, DefaultTtlSeconds, now)
                              ELSE kept
                         ELSE st.outputs
             tasks    == IF req.extract_facts
                         THEN add_task(st.tasks, "extract_and_store_facts", agent_name)
                         ELSE st.tasks
         IN  IF agent = None
             THEN LegacyLoop(k + 1, agents, outs, reg, req,
                      [st EXCEPT !.errors = (agent_name :> <<"Agent not found">>) @@ @])
             ELSE IF rsp.py = "exception"
             THEN LegacyLoop(k + 1, agents, outs, reg, req,
                      [st EXCEPT !.errors = (agent_name :> rsp.msg) @@ @])
             ELSE IF HasKey(rsp, "error")
             THEN LegacyLoop(k + 1, agents, outs, reg, req,
                      [st EXCEPT !.errors = (agent_name :> rsp.d["error"]) @@ @])
             ELSE LegacyLoop(k + 1, agents, outs, reg, req,
                      [agent_results |-> (agent_name :>
                                             IF req.include_context THEN enriched
                                             ELSE plain)
                                         @@ st.agent_results,
                       errors  |-> st.errors,
                       outputs |-> stored,
                       tasks   |-> tasks])

\* The body returned at the end of orchestrate.
Envelope(req, agent_results, errors) ==
    [entity        |-> OrchEntity,
     context       |-> req.include_context,
     results       |-> agent_results,
     errors        |-> errors,
     success_count |-> Cardinality(DOMAIN agent_results),
     error_count   |-> Cardinality(DOMAIN errors)]

\* errors[agent_type_str] of a string that is no AgentType
InvalidType == <<"Invalid agent type. Valid types: ">> \o AgentTypeValues

\* errors after the validation loop
ValidationErrors(strs) ==
    [x \in {strs[i] : i \in DOMAIN strs} \ AgentType |-> InvalidType]

OrchInit ==
    /\ request \in Requests
    /\ orch_pc = "start"
    /\ envelope = NoEnvelope
    /\ background_tasks = <<>>

OrchIdle ==
    /\ request = [agent_types |-> <<>>, agents |-> <<>>, use_router |-> TRUE,
                  include_context |-> FALSE,
                  store_outputs |-> FALSE, extract_facts |-> FALSE]
    /\ orch_pc = "idle"
    /\ envelope = NoEnvelope
    /\ background_tasks = <<>>

\* orchestrate in router mode up to its await: build_context, the validation
\* loop and, when a valid type is left, the call of route_multiple.  With no
\* valid type the handler schedules the cleanup and returns at once.
OrchestrateStart ==
    /\ orch_pc = "start"
    /\ Mode(request) = "router"
    /\ LET valid == SelectSeq(request.agent_types, LAMBDA x : x \in AgentType)
           kept  == IF request.include_context
                    THEN cleanup_expired_outputs(recent_outputs, now)
                    ELSE recent_outputs
       IN  /\ recent_outputs' = kept
           /\ IF valid # <<>>
              THEN /\ agent_types' = valid
                   /\ results' = [i \in 1..Len(valid) |-> Pending]
                   /\ task_outcome' = [i \in 1..Len(valid) |-> "pending"]
                   /\ route_pc' = "gathering"
                   /\ orch_pc' = "routing"
                   /\ UNCHANGED <<envelope, background_tasks>>
              ELSE /\ background_tasks' = add_task(background_tasks, "cleanup_expired", None)
                   /\ envelope' = Envelope(request, <<>>,
                                           ValidationErrors(request.agent_types))
                   /\ orch_pc' = "responded"
                   /\ UNCHANGED <<agent_types, results, task_outcome, route_pc>>
    /\ UNCHANGED <<registry, entity_is_str, message_given, response, request>>
    /\ UNCHANGED historical_signals
    /\ UNCHANGED <<intentVars, storeVars, jobVars, clientVars, writerVars>>

\* orchestrate in legacy mode: build_context, then the agents of
\* request.agents one after the other, the cleanup task and the return.
OrchestrateLegacy ==
    /\ orch_pc = "start"
    /\ Mode(request) = "legacy"
    /\ \E outs \in [DOMAIN request.agents -> ClientOutcomes] :
         LET kept == IF request.include_context
                     THEN cleanup_expired_outputs(recent_outputs, now)
                     ELSE recent_outputs
             st   == LegacyLoop(1, request.agents, outs, registry, request,
                         [agent_results |-> <<>>, errors |-> <<>>,
                          outputs |-> kept, tasks |-> background_tasks])
         IN  /\ recent_outputs' = st.outputs
             /\ background_tasks' = add_task(st.tasks, "cleanup_expired", None)
             /\ envelope' = Envelope(request, st.agent_results, st.errors)
    /\ orch_pc' = "responded"
    /\ UNCHANGED request
    /\ UNCHANGED historical_signals
    /\ UNCHANGED <<routerVars, intentVars, storeVars, jobVars, clientVars, writerVars>>

\* orchestrate in default mode up to its await: build_context and the call of
\* route_multiple with all_types.
OrchestrateDefault ==
    /\ orch_pc = "start"
    /\ Mode(request) = "default"
    /\ recent_outputs' = IF request.include_context
                         THEN cleanup_expired_outputs(recent_outputs, now)
                         ELSE recent_outputs
    /\ agent_types' = all_types
    /\ results' = [i \in 1..Len(all_types) |-> Pending]
    /\ task_outcome' = [i \in 1..Len(all_types) |-> "pending"]
    /\ route_pc' = "gathering"
    /\ orch_pc' = "routing"
    /\ UNCHANGED <<envelope, background_tasks>>
    /\ UNCHANGED <<registry, entity_is_str, message_given, response, request>>
    /\ UNCHANGED historical_signals
    /\ UNCHANGED <<intentVars, storeVars, jobVars, clientVars, writerVars>>

\* orchestrate after route_multiple has returned.  Router mode: the loop over
\* the results, errors.update, the cleanup task and the return.  Default
\* mode: the two maps of the router as they are, the cleanup task and the
\* return.
OrchestrateFinish ==
    /\ orch_pc = "routing"
    /\ route_pc = "returned"
    /\ IF Mode(request) = "router"
       THEN LET st == ProcessResults(1, ItemOrder(1, agent_types, results), response,
                          request,
                          [agent_results |-> <<>>, outputs |-> recent_outputs,
                           tasks |-> background_tasks])
                errors == response.errors @@ ValidationErrors(request.agent_types)
            IN  /\ recent_outputs' = st.outputs
                /\ background_tasks' = add_task(st.tasks, "cleanup_expired", None)
                /\ envelope' = Envelope(request, st.agent_results, errors)
       ELSE /\ recent_outputs' = recent_outputs
            /\ background_tasks' = add_task(background_tasks, "cleanup_expired", None)
            /\ envelope' = Envelope(request, response.agent_results, response.errors)
    /\ orch_pc' = "responded"
    /\ UNCHANGED request
    /\ UNCHANGED historical_signals
    /\ UNCHANGED <<routerVars, intentVars, storeVars, jobVars, clientVars, writerVars>>

(***************************************************************************)
(* core/a2a_client.py: A2AClient.invoke_agent                              *)
(***************************************************************************)
\* The paths invoke_agent posts to: /chat, then the fallback list.
Paths == <<"/chat", "/invoke", "/message", "/">>

\* What one POST and the reading of its response can do:
\*   ok, ok_list   2xx with a JSON object / a JSON array as body
\*   status        a non-2xx status: raise_for_status raises HTTPStatusError
\*   transport     the connection fails (httpx.ConnectError)
\*   timeout       httpx.TimeoutException
\*   malformed     2xx, but response.json() raises a ValueError
\* status_code is 0 where no response arrived.
PostOutcomes ==
    [kind : {"ok", "ok_list", "malformed"}, status_code : {200}]
    \cup [kind : {"transport", "timeout"}, status_code : {0}]
    \cup [kind : {"status"}, status_code : {404, 500}]

IsBody(o) == o.kind \in {"ok", "ok_list"}

\* response.json() of a successful POST
json_body(name, o) == IF o.kind = "ok" THEN PyDict("answer" :> name) ELSE PyList

\* The two outer except clauses: what invoke_agent returns for an exception
\* that leaves the inner try statement.
\* e.response.text: the body of the response to the POST of an attempt
response_text(attempt) == <<"body of ", attempt.path>>

outer_except_status_only(attempt) ==
    IF attempt.outcome.kind = "status"
    THEN PyDict("error" :> <<"HTTP ", attempt.outcome.status_code, ": ",
                             response_text(attempt)>>)
    ELSE PyException(<<attempt.outcome.kind>>)

outer_except(attempt) ==
    IF attempt.outcome.kind = "status"
    THEN PyDict("error" :> <<"HTTP ", attempt.outcome.status_code, ": ",
                             response_text(attempt)>>)
    ELSE PyDict("error" :> <<attempt.outcome.kind>>)

\* The arguments of a call: the client, and the conversation_id (<<>> for None)
ClientCalls == [name : AgentNames, conversation_id : {<<>>, <<"conv-7">>}]

\* payload["conversation_id"]
conversation_id(call, t) ==
    IF call.conversation_id # <<>> THEN call.conversation_id ELSE <<"conv_", t>>

ClientInit ==
    /\ client_call \in ClientCalls
    /\ client_pc = 1
    /\ attempts = <<>>
    /\ client_result = Pending

ClientIdle ==
    /\ client_call = [name |-> None, conversation_id |-> <<>>]
    /\ client_pc = 0
    /\ attempts = <<>>
    /\ client_result = Pending

(***************************************************************************)
(* Writers on one database file.  Every store, store_signal and            *)
(* store_output call opens its own connection (sqlite3.connect), runs its  *)
(* statements in one transaction that the first of them opens, and ends    *)
(* with conn.commit().                                                     *)
(***************************************************************************)
Writers == {"w1", "w2"}

NoTxn == [managed_storage |-> {}, storage_index |-> <<>>,
          historical_signals |-> <<>>, recent_outputs |-> <<>>]

WritersIdle ==
    /\ writers = [w \in Writers |-> [pc |-> "idle", op |-> "none", args |-> <<>>,
                                     row |-> <<>>, txn |-> NoTxn]]
    /\ db_lock = None
    /\ commits = <<>>

\* An invoke_agent whose raise after the loop raises the HTTPStatusError of
\* the last path.
PostReraisingLast ==
    /\ client_pc \in DOMAIN Paths
    /\ \E o \in PostOutcomes :
         /\ attempts' = Append(attempts,
                [path |-> Paths[client_pc], outcome |-> o,
                 conversation_id |-> conversation_id(client_call, now)])
         /\ IF IsBody(o)
            THEN /\ client_result' = json_body(client_call.name, o)
                 /\ client_pc' = 0
            ELSE IF o.kind = "status" /\ client_pc < Len(Paths)
            THEN /\ client_pc' = client_pc + 1
                 /\ UNCHANGED client_result
            ELSE IF o.kind = "status"
            THEN /\ client_result' = outer_except(attempts'[Len(attempts')])
                 /\ client_pc' = 0
            ELSE /\ client_result' = outer_except(attempts'[Len(attempts')])
                 /\ client_pc' = 0
    /\ UNCHANGED client_call
    /\ UNCHANGED <<routerVars, intentVars, storeVars, jobVars, ctxVars, orchVars, writerVars>>

\* client_pc is the index in Paths of the path posted to next, 0 once
\* invoke_agent has returned or raised.
\* One POST of invoke_agent and what follows it up to the next POST or the
\* return.  An HTTPStatusError moves on to the next path and, after the last
\* path, the bare raise re-raises the HTTPStatusError of /chat; any other
\* exception leaves both inner try statements at once.
Post ==
    /\ client_pc \in DOMAIN Paths
    /\ \E o \in PostOutcomes :
         /\ attempts' = Append(attempts,
                [path |-> Paths[client_pc], outcome |-> o,
                 conversation_id |-> conversation_id(client_call, now)])
         /\ IF IsBody(o)
            THEN /\ client_result' = json_body(client_call.name, o)
                 /\ client_pc' = 0
            ELSE IF o.kind = "status" /\ client_pc < Len(Paths)
            THEN /\ client_pc' = client_pc + 1
                 /\ UNCHANGED client_result
            ELSE IF o.kind = "status"
            THEN /\ client_result' = outer_except(attempts'[1])
                 /\ client_pc' = 0
            ELSE /\ client_result' = outer_except(attempts'[Len(attempts')])
                 /\ client_pc' = 0
    /\ UNCHANGED client_call
    /\ UNCHANGED <<routerVars, intentVars, storeVars, jobVars, ctxVars, orchVars, writerVars>>


IntentIdle == intent = <<>> /\ routed = None

InitFacts == RouterIdle /\ IntentIdle /\ StoreInit /\ JobsIdle
             /\ ContextIdle /\ OrchIdle /\ ClientIdle /\ WritersIdle

NextFacts ==
    \/ StoreFact(FactKeys, FactPayloads, {NoExpiry, 1}, MaxFactWrites)
    \/ GetFact(Entities, FactTypes)
    \/ GetAllFacts(Entities)
    \/ FactsCleanupExpired
    \/ Tick

SpecFacts == InitFacts /\ [][NextFacts]_vars

HashInputs == <<json_dumps(Data1, TRUE), json_dumps(Data2, TRUE), json_dumps(Data1r, FALSE)>>
HexDigests == <<"0cc175b9", "92eb5ffe", "4a8a08f0">>
md5_hexdigest(text) == HexDigests[CHOOSE i \in DOMAIN HashInputs : HashInputs[i] = text]

\* ManagedStorage._hash_data
_hash_data_unsorted(data) == <<md5_hexdigest(json_dumps(data, FALSE))>>

_hash_data(data) == <<md5_hexdigest(json_dumps(data, TRUE))>>

\* ManagedStorage._generate_storage_key: sha256 without collisions, so the
\* key is the key_string it digests
_generate_storage_key(entity, agent_type, data_hash) ==
    LET key_string == entity \o <<":">> \o agent_type \o <<":">> \o data_hash
    IN  [sha256 |-> key_string]

\* The other arguments of store: the defaults, and a call that gives them all.
\* tags and index_fields of None and of [] behave alike and are both <<>>.
StoreOptions ==
    { [storage_type |-> "output", schema_version |-> None, confidence_score |-> 0,
       expires_in_hours |-> NoExpiry, tags |-> <<>>, source |-> None,
       index_fields |-> <<>>],
      [storage_type |-> "fact", schema_version |-> "2.0", confidence_score |-> 8,
       expires_in_hours |-> 1, tags |-> <<"kpi">>, source |-> "agent_ac",
       index_fields |-> <<"company_name">>] }

\* the row that store writes
managed_row(entity, agent_type, data, o, t) ==
    LET storage_key == _generate_storage_key(entity, agent_type, _hash_data(data))
        expires_at == ExpiresAt(o.expires_in_hours, t)
        schema_version == IF o.schema_version = None THEN "1.0" ELSE o.schema_version
    IN  [storage_key |-> storage_key, entity |-> entity, agent_type |-> agent_type,
         storage_type |-> o.storage_type, data |-> json_dumps(data, FALSE),
         schema_version |-> schema_version,
         confidence_score |-> o.confidence_score,
         metadata |-> [entity |-> entity, agent_type |-> agent_type,
                       storage_type |-> o.storage_type,
                       schema_version |-> schema_version,
                       confidence_score |-> o.confidence_score,
                       created_at |-> t, updated_at |-> t,
                       expires_at |-> expires_at, tags |-> o.tags,
                       source |-> o.source],
         created_at |-> t, updated_at |-> t, expires_at |-> expires_at]

\* INSERT OR REPLACE INTO managed_storage under UNIQUE(storage_key)
insert_or_replace(table, row) ==
    {r \in table : r.storage_key # row.storage_key} \cup {row}

\* the storage_index rows store inserts for the index_fields present in data
RECURSIVE index_rows(_, _, _, _)
index_rows(storage_key, data, index_fields, i) ==
    IF i > Len(index_fields) THEN <<>>
    ELSE (IF index_fields[i] \in DictKeys(data)
          THEN <<[storage_key |-> storage_key, index_key |-> index_fields[i],
                  index_value |-> str(data[DictGet(data, index_fields[i])][2])]>>
          ELSE <<>>)
         \o index_rows(storage_key, data, index_fields, i + 1)

\* the storage_index table after store
store_index(index, storage_key, data, index_fields) ==
    IF index_fields # <<>>
    THEN LET Other(x) == x.storage_key # storage_key
         IN  SelectSeq(index, Other) \o index_rows(storage_key, data, index_fields, 1)
    ELSE index

\* ManagedStorage.retrieve: the rows its SELECT matches; a filter that is
\* None or "" is not applied
retrieve_rows(table, a, t) ==
    {r \in table :
        /\ a.entity # <<>> => r.entity = a.entity
        /\ a.agent_type # <<>> => r.agent_type = a.agent_type
        /\ a.storage_type # None => r.storage_type = a.storage_type
        /\ r.confidence_score >= a.min_confidence
        /\ ~a.include_expired => NotExpired(r, t)}

\* the dict retrieve and retrieve_by_index build from a row
retrieve_dict(r) ==
    [storage_key |-> r.storage_key, entity |-> r.entity, agent_type |-> r.agent_type,
     storage_type |-> r.storage_type, data |-> json_loads(r.data),
     metadata |-> r.metadata, created_at |-> r.created_at]

\* ManagedStorage.retrieve_by_index: the rows of the JOIN, one per matching
\* storage_index row
retrieve_by_index_rows(table, index, index_key, index_value, t) ==
    {p \in table \X DOMAIN index :
        /\ index[p[2]].storage_key = p[1].storage_key
        /\ index[p[2]].index_key = index_key
        /\ index[p[2]].index_value = index_value
        /\ NotExpired(p[1], t)}

\* ManagedStorage.cleanup_expired
cleanup_expired_index(table, index, t) ==
    LET Kept(x) == \A r \in table : r.storage_key = x.storage_key => ~ExpiredForCleanup(r, t)
    IN  SelectSeq(index, Kept)

cleanup_expired_rows(table, t) == {r \in table : ~ExpiredForCleanup(r, t)}

\* ghost: what identifies the content of a store call
Content(entity, agent_type, data) == <<entity, agent_type, Range(data)>>

\* ghost: the number of store calls so far
RECURSIVE SumStores(_)
SumStores(cs) ==
    IF cs = {} THEN 0
    ELSE LET c == CHOOSE c \in cs : TRUE
         IN  store_log[c].n + SumStores(cs \ {c})

ManagedWrites == SumStores(DOMAIN store_log)

ManagedStore(C, maxStores) ==
    /\ ManagedWrites < maxStores
    /\ \E c \in C :
         LET row == managed_row(c.entity, c.agent_type, c.data, c.o, now)
             content == Content(c.entity, c.agent_type, c.data)
             old == IF content \in DOMAIN store_log
                    THEN store_log[content] ELSE [keys |-> {}, n |-> 0]
         IN  /\ managed_storage' = insert_or_replace(managed_storage, row)
             /\ storage_index' = store_index(storage_index, row.storage_key,
                                             c.data, c.o.index_fields)
             /\ store_log' = (content :> [keys |-> old.keys \cup {row.storage_key},
                                          n |-> old.n + 1,
                                          expires_in_hours |-> c.o.expires_in_hours,
                                          at |-> now]) @@ store_log
             /\ last_call' = Read("store", c.entity, FALSE, <<row>>, <<row.storage_key>>)
    /\ UNCHANGED <<now, cached_facts, fact_log>>
    /\ UNCHANGED <<routerVars, intentVars, jobVars, ctxVars, orchVars, clientVars, writerVars>>

Retrieve(A) ==
    /\ \E a \in A :
         LET rows == retrieve_rows(managed_storage, a, now)
         IN  \E o \in Orderings(rows, [r \in rows |-> r.created_at]) :
            LET q == Limit(o, a.limit)
            IN  last_call' = Read("retrieve", a.entity, a.include_expired, q,
                                  [i \in DOMAIN q |-> retrieve_dict(q[i])])
    /\ UNCHANGED <<now, cached_facts, managed_storage, storage_index, store_log, fact_log>>
    /\ UNCHANGED <<routerVars, intentVars, jobVars, ctxVars, orchVars, clientVars, writerVars>>

\* get_latest: retrieve with limit 1 and the other filters at their defaults
GetLatest(E, A, S) ==
    /\ \E entity \in E, agent_type \in A, storage_type \in S :
         LET a == [entity |-> entity, agent_type |-> agent_type,
                   storage_type |-> storage_type, limit |-> 1,
                   min_confidence |-> 0, include_expired |-> FALSE]
             rows == retrieve_rows(managed_storage, a, now)
         IN  \E o \in Orderings(rows, [r \in rows |-> r.created_at]) :
                LET q == Limit(o, 1)
                IN  last_call' = Read("get_latest", entity, FALSE, q,
                                      [i \in DOMAIN q |-> retrieve_dict(q[i])])
    /\ UNCHANGED <<now, cached_facts, managed_storage, storage_index, store_log, fact_log>>
    /\ UNCHANGED <<routerVars, intentVars, jobVars, ctxVars, orchVars, clientVars, writerVars>>

RetrieveByIndex(K, V, L) ==
    /\ \E index_key \in K, index_value \in V, limit \in L :
         LET rows == retrieve_by_index_rows(managed_storage, storage_index,
                                            index_key, index_value, now)
         IN  \E o \in Orderings(rows, [p \in rows |-> p[1].created_at]) :
            LET q == Limit([i \in DOMAIN o |-> o[i][1]], limit)
            IN  last_call' = Read("retrieve_by_index", <<>>, FALSE, q,
                                  [i \in DOMAIN q |-> retrieve_dict(q[i])])
    /\ UNCHANGED <<now, cached_facts, managed_storage, storage_index, store_log, fact_log>>
    /\ UNCHANGED <<routerVars, intentVars, jobVars, ctxVars, orchVars, clientVars, writerVars>>

\* The two DELETE statements each read datetime.now(): the second reading
\* is the first one or a later one.
ManagedCleanupExpired ==
    /\ \E later \in {now} \cup {t \in {now + 1} : t <= MaxTime} :
         /\ storage_index' = cleanup_expired_index(managed_storage, storage_index, now)
         /\ managed_storage' = cleanup_expired_rows(managed_storage, later)
         /\ now' = later
    /\ last_call' = Call("cleanup_expired")
    /\ UNCHANGED <<cached_facts, store_log, fact_log>>
    /\ UNCHANGED <<routerVars, intentVars, jobVars, ctxVars, orchVars, clientVars, writerVars>>

(***************************************************************************)
(* The managed store on its own.                                           *)
(***************************************************************************)
\* the store calls of the runs: one content under both sets of options and
\* both insertion orders of its data, and contents that differ from it in
\* the data, in the entity or in the agent type
ManagedCalls ==
    { [entity |-> <<"Acme">>, agent_type |-> <<"company_overview">>,
       data |-> d, o |-> o] : d \in {Data1, Data1r}, o \in StoreOptions }
    \cup
    { [entity |-> k[1], agent_type |-> k[2], data |-> k[3],
       o |-> CHOOSE o \in StoreOptions : o.storage_type = k[4]] :
         k \in { << <<"Acme">>, <<"company_overview">>, Data2, "fact" >>,
                 << <<"Beta">>, <<"company_overview">>, Data1, "output" >>,
                 << <<"Acme">>, <<"revenue_turnover">>, Data1, "fact" >> } }

InitManaged == RouterIdle /\ IntentIdle /\ StoreInit /\ JobsIdle
               /\ ContextIdle /\ OrchIdle /\ ClientIdle /\ WritersIdle

NextManaged ==
    \/ ManagedStore(ManagedCalls, MaxStores)
    \/ ManagedCleanupExpired
    \/ Tick

SpecManaged == InitManaged /\ [][NextManaged]_vars

\* C2: storing the same (entity, agent_type, data) again returns the storage
\* key it returned before, whatever the other arguments and whatever was
\* stored in between; no two rows share a storage key; rows of the same
\* content are one row; and right after a store the table holds exactly one
\* row under the returned key, the row just written.
C2_StoreIdempotentOnContent ==
    /\ \A c \in DOMAIN store_log : Cardinality(store_log[c].keys) = 1
    /\ \A r1, r2 \in managed_storage :
          (r1.storage_key = r2.storage_key
             \/ Content(r1.entity, r1.agent_type, json_loads(r1.data))
                  = Content(r2.entity, r2.agent_type, json_loads(r2.data)))
          => r1 = r2
    /\ last_call.op = "store" =>
          {r \in managed_storage : r.storage_key = last_call.out[1]}
             = {last_call.rows[1]}

\* A content is stored for at least the second time while another item,
\* written after its first store, is in the table.
C2_Witness ==
    /\ last_call.op = "store"
    /\ LET r == last_call.rows[1]
           c == Content(r.entity, r.agent_type, json_loads(r.data))
       IN  /\ store_log[c].n >= 2
           /\ \E x \in managed_storage :
                 /\ x.storage_key # r.storage_key
                 /\ x.created_at < r.created_at

(***************************************************************************)
(* Both stores together: writes with every kind of expires_in_hours, the   *)
(* five read paths, cleanup and the passing of time.                       *)
(***************************************************************************)
ExpiryFactKeys == {<< <<"Acme">>, "company_profile" >>}
ExpiryFactPayloads == {[data |-> Data1, confidence_score |-> 8, source |-> None]}

ExpiryCalls ==
    { [entity |-> <<"Acme">>, agent_type |-> <<"company_overview">>, data |-> d,
       o |-> [o EXCEPT !.expires_in_hours = h]] :
         d \in {Data1, Data2}, h \in ExpiryArgs,
         o \in {x \in StoreOptions : x.storage_type = "fact"} }

RetrieveArgs ==
    { [entity |-> <<"Acme">>, agent_type |-> <<>>, storage_type |-> None,
       limit |-> 10, min_confidence |-> 0, include_expired |-> b] : b \in BOOLEAN }

InitStore == RouterIdle /\ IntentIdle /\ StoreInit /\ JobsIdle
             /\ ContextIdle /\ OrchIdle /\ ClientIdle /\ WritersIdle

NextStore ==
    \/ StoreFact(ExpiryFactKeys, ExpiryFactPayloads, ExpiryArgs, MaxWrites - ManagedWrites)
    \/ ManagedStore(ExpiryCalls, MaxWrites - FactWrites)
    \/ GetFact({<<"Acme">>}, {"company_profile"})
    \/ GetAllFacts({<<"Acme">>})
    \/ Retrieve(RetrieveArgs)
    \/ GetLatest({<<"Acme">>}, {<<"company_overview">>}, {None})
    \/ RetrieveByIndex({"company_name"}, {"Acme Corp"}, {10})
    \/ FactsCleanupExpired
    \/ ManagedCleanupExpired
    \/ Tick

SpecStore == InitStore /\ [][NextStore]_vars

ReadOps == {"get_fact", "get_all_facts", "retrieve", "get_latest", "retrieve_by_index"}

\* the row's expiry timestamp is set and lies before t
InThePast(r, t) == r.expires_at # NoExpiry /\ r.expires_at < t

\* C3: a row whose non-null expires_at is in the past at the time of the read
\* is in the result of no get_fact, get_all_facts, get_latest or
\* retrieve_by_index call, and of a retrieve call only when it was made with
\* include_expired = True.
C3_NoExpiredRead ==
    last_call.op \in ReadOps =>
        \A i \in DOMAIN last_call.rows :
            InThePast(last_call.rows[i], last_call.at) =>
                (last_call.op = "retrieve" /\ last_call.include_expired)

\* A default retrieve returns an item while an item of the same entity whose
\* expiry is in the past is still in the table.
C3_Witness ==
    /\ last_call.op = "retrieve"
    /\ ~last_call.include_expired
    /\ Len(last_call.rows) >= 1
    /\ \E r \in managed_storage :
          r.entity = last_call.entity /\ InThePast(r, last_call.at)

\* ghost: the expires_in_hours and the time of the store call that wrote row r
Supplied(r) ==
    IF last_call.op \in {"get_fact", "get_all_facts"}
    THEN fact_log[<<r.entity, r.fact_type>>]
    ELSE store_log[Content(r.entity, r.agent_type, json_loads(r.data))]

\* C4: a fact or managed item stored with a supplied expires_in_hours = h,
\* h >= 0, is in the result of no default (non-expired) read made at a time
\* now >= store time + h.
C4_ExpiryMonotonicity ==
    (last_call.op \in ReadOps /\ ~last_call.include_expired) =>
        \A i \in DOMAIN last_call.rows :
            LET w == Supplied(last_call.rows[i])
            IN  ~(w.expires_in_hours >= 0 /\ last_call.at >= w.at + w.expires_in_hours)

(***************************************************************************)
(* The analysis jobs on their own.  The background task and the requests   *)
(* interleave, as they do when several workers serve the same database.    *)
(***************************************************************************)
InitJobs == RouterIdle /\ IntentIdle /\ StoreIdle /\ JobsInit
            /\ ContextIdle /\ OrchIdle /\ ClientIdle /\ WritersIdle

NextJobs ==
    \/ CreateAnalysisJob
    \/ RunStart
    \/ RunFinish
    \/ RunExcept
    \/ GetSection
    \/ AlertsStart
    \/ AlertsFinish

SpecJobs == InitJobs /\ [][NextJobs]_vars

Rank(status) ==
    CASE status = "queued" -> 0
      [] status = "analyzing" -> 1
      [] status \in {"completed", "failed"} -> 2

\* C5: no step of create-job, the analysis run or the section and alerts
\* endpoints removes a job or moves its status backward along
\* queued -> analyzing -> {completed | failed}, and a job that is completed
\* or failed keeps its status in every later step.
C5_StatusForwardOnly ==
    [][\A job_id \in DOMAIN analysis_jobs :
          /\ job_id \in DOMAIN analysis_jobs'
          /\ Rank(analysis_jobs'[job_id].status) >= Rank(analysis_jobs[job_id].status)
          /\ analysis_jobs[job_id].status \in {"completed", "failed"}
                => analysis_jobs'[job_id].status = analysis_jobs[job_id].status]_vars

\* The alerts endpoint has written the alerts back into a completed job while
\* the run of another job failed.
C5_Witness ==
    \E a, b \in DOMAIN analysis_jobs :
        /\ analysis_jobs[a].status = "completed"
        /\ analysis_jobs[a].result.alerts
        /\ analysis_jobs[b].status = "failed"

AllSections == DerivedSections \cup {"alerts"}

\* C6: a section endpoint that reads a job in status queued or analyzing
\* answers 409 "Analysis not complete".
C6_NotCompleteIs409 ==
    (last_http.section \in AllSections /\ last_http.status_seen \in {"queued", "analyzing"})
        => last_http.code = 409

\* C7: a section endpoint answers with a derived section (200) only for a job
\* it read as completed; for a job in another status it answers 409, or 404
\* when the job or its result is absent.
C7_SuccessOnlyWhenCompleted ==
    last_http.section \in AllSections =>
        /\ last_http.code = 200 => last_http.status_seen = "completed"
        /\ last_http.status_seen # "completed" =>
              \/ last_http.code = 409
              \/ last_http.code = 404 /\ ~last_http.has_result

\* the keys a section's response must carry
RequiredKeys(section) ==
    CASE section = "overview"          -> {"confidence"}
      [] section = "offerings"         -> {"product_launches", "pricing_changes", "confidence"}
      [] section = "market-signals"    -> {"financials", "confidence"}
      [] section = "sentiment"         -> {"sentiment_summary", "sentiment_score", "risks",
                                           "opportunities", "confidence"}
      [] section = "executive-summary" -> {"summary", "key_highlights", "overall_outlook"}
      [] section = "risks"             -> {"risks"}
      [] section = "follow-ups"        -> {"questions"}

\* C8: a derived section endpoint that reads a completed job answers 200 with
\* the section's required keys, whatever the shapes of the agent outputs in
\* the job's result and whichever of them are missing.
C8_CompletedSectionsSucceed ==
    (last_http.section \in DerivedSections /\ last_http.status_seen = "completed")
        => /\ last_http.code = 200
           /\ RequiredKeys(last_http.section) \subseteq last_http.keys

(***************************************************************************)
(* One route_multiple call of the router.                                  *)
(***************************************************************************)
InitRouter == RouterInit /\ IntentIdle /\ StoreIdle /\ JobsIdle
              /\ ContextIdle /\ OrchIdle /\ ClientIdle /\ WritersIdle

NextRouter ==
    \/ RouteTask
    \/ RouteGather

SpecRouter == InitRouter /\ [][NextRouter]_vars

Distinct(q) == \A i, j \in DOMAIN q : i # j => q[i] # q[j]

\* ghost outcomes that are failures of a type's own routing
FailedOutcomes == {"no_handle", "missing_handle", "thrown", "error", "timeout", "raise"}

Failed(i) == task_outcome[i] \in FailedOutcomes

\* C1: for a list of distinct agent types and any per-type outcomes, every
\* input type is in exactly one of agent_results and errors of the returned
\* envelope, and in errors exactly when its own routing failed; no other key
\* appears; so when exactly one type k fails among N, agent_results has N-1
\* entries and errors has exactly one, keyed by k.
C1_FanOutIsolation ==
    (route_pc = "returned" /\ Distinct(agent_types)) =>
        LET N      == Len(agent_types)
            ok     == DOMAIN response.agent_results
            bad    == DOMAIN response.errors
            failed == {i \in 1..N : Failed(i)}
        IN  /\ \A i \in 1..N :
                  /\ (agent_types[i] \in ok) # (agent_types[i] \in bad)
                  /\ (agent_types[i] \in bad) <=> Failed(i)
            /\ ok \cup bad = Range(agent_types)
            /\ response.success_count = Cardinality(ok)
            /\ response.error_count = Cardinality(bad)
            /\ Cardinality(failed) = 1 =>
                  /\ Cardinality(ok) = N - 1
                  /\ bad = {agent_types[i] : i \in failed}

\* Two distinct types were routed; one timed out and the other succeeded.
C1_Witness ==
    /\ route_pc = "returned"
    /\ Len(agent_types) = 2
    /\ Distinct(agent_types)
    /\ task_outcome[1] = "timeout"
    /\ task_outcome[2] = "ok"
    /\ DOMAIN response.errors = {agent_types[1]}
    /\ DOMAIN response.agent_results = {agent_types[2]}

(***************************************************************************)
(* core/a2a_router.py: route_by_intent.  A text is a sequence of           *)
(* one-character strings.                                                  *)
(***************************************************************************)
UpperCase == <<"A", "B", "C", "D", "E", "F", "G", "H", "I", "J", "K", "L", "M",
               "N", "O", "P", "Q", "R", "S", "T", "U", "V", "W", "X", "Y", "Z">>
LowerCase == <<"a", "b", "c", "d", "e", "f", "g", "h", "i", "j", "k", "l", "m",
               "n", "o", "p", "q", "r", "s", "t", "u", "v", "w", "x", "y", "z">>

\* str.lower()
lower(text) ==
    [i \in DOMAIN text |->
        IF \E j \in DOMAIN UpperCase : UpperCase[j] = text[i]
        THEN LowerCase[CHOOSE j \in DOMAIN UpperCase : UpperCase[j] = text[i]]
        ELSE text[i]]

\* word in text
Contains(text, word) ==
    \E i \in 0..(Len(text) - Len(word)) : SubSeq(text, i + 1, i + Len(word)) = word

\* any(word in text for word in words)
any_in(text, words) == \E word \in words : Contains(text, word)
PricingWords ==
    {<<"p", "r", "i", "c", "e">>,
     <<"p", "r", "i", "c", "i", "n", "g">>,
     <<"c", "o", "s", "t">>,
     <<"p", "r", "i", "c", "e", " ", "c", "h", "a", "n", "g", "e">>}
LaunchWords ==
    {<<"l", "a", "u", "n", "c", "h">>,
     <<"p", "r", "o", "d", "u", "c", "t", " ", "l", "a", "u", "n", "c", "h">>,
     <<"n", "e", "w", " ", "p", "r", "o", "d", "u", "c", "t">>,
     <<"a", "n", "n", "o", "u", "n", "c", "e", "m", "e", "n", "t">>}
SentimentWords ==
    {<<"s", "e", "n", "t", "i", "m", "e", "n", "t">>,
     <<"f", "e", "e", "l", "i", "n", "g">>,
     <<"o", "p", "i", "n", "i", "o", "n">>,
     <<"m", "o", "o", "d">>}
OverviewWords ==
    {<<"o", "v", "e", "r", "v", "i", "e", "w">>,
     <<"p", "r", "o", "f", "i", "l", "e">>,
     <<"c", "o", "m", "p", "a", "n", "y", " ", "i", "n", "f", "o">>,
     <<"a", "b", "o", "u", "t">>}
RevenueWords ==
    {<<"r", "e", "v", "e", "n", "u", "e">>,
     <<"t", "u", "r", "n", "o", "v", "e", "r">>,
     <<"f", "i", "n", "a", "n", "c", "i", "a", "l">>,
     <<"e", "a", "r", "n", "i", "n", "g", "s">>,
     <<"p", "r", "o", "f", "i", "t">>}
\* The words the intent texts of the model are made of.
Vocabulary ==
    {<<"c", "h", "e", "c", "k">>,
     <<"p", "r", "i", "c", "i", "n", "g">>,
     <<"f", "o", "r">>,
     <<"l", "a", "u", "n", "c", "h">>,
     <<"P", "r", "i", "c", "e">>,
     <<"C", "O", "S", "T">>,
     <<"m", "o", "o", "d">>,
     <<"p", "r", "o", "f", "i", "l", "e">>,
     <<"r", "e", "v", "e", "n", "u", "e">>,
     <<"h", "e", "l", "l", "o">>,
     <<"A", "n", "n", "o", "u", "n", "c", "e", "m", "e", "n", "t">>,
     <<"e", "a", "r", "n", "i", "n", "g", "s">>}
CheckPricingForLaunch ==
    <<"c", "h", "e", "c", "k", " ", "p", "r", "i", "c", "i", "n", "g", " ", "f", "o", "r", " ", "l", "a", "u", "n", "c", "h">>

\* The texts of up to n words, the words separated by one space.
RECURSIVE Texts(_)
Texts(n) ==
    IF n = 0 THEN {}
    ELSE Vocabulary \cup Texts(n - 1)
         \cup {t \o <<" ">> \o v : t \in Texts(n - 1), v \in Vocabulary}

Intents == Texts(MaxWords) \cup {CheckPricingForLaunch}

\* route_by_intent: the agent type it routes to
route_by_intent_launch_first(text) ==
    LET intent_lower == lower(text)
    IN  IF any_in(intent_lower, LaunchWords) THEN "product_launch"
        ELSE IF any_in(intent_lower, PricingWords) THEN "pricing_change"
        ELSE IF any_in(intent_lower, SentimentWords) THEN "sentiment"
        ELSE IF any_in(intent_lower, OverviewWords) THEN "company_overview"
        ELSE IF any_in(intent_lower, RevenueWords) THEN "revenue_turnover"
        ELSE "company_overview"

route_by_intent(text) ==
    LET intent_lower == lower(text)
    IN  IF any_in(intent_lower, PricingWords) THEN "pricing_change"
        ELSE IF any_in(intent_lower, LaunchWords) THEN "product_launch"
        ELSE IF any_in(intent_lower, SentimentWords) THEN "sentiment"
        ELSE IF any_in(intent_lower, OverviewWords) THEN "company_overview"
        ELSE IF any_in(intent_lower, RevenueWords) THEN "revenue_turnover"
        ELSE "company_overview"

IntentInit == intent \in Intents /\ routed = None

RouteByIntent ==
    /\ routed = None
    /\ routed' = route_by_intent(intent)
    /\ UNCHANGED intent
    /\ UNCHANGED <<routerVars, storeVars, jobVars, ctxVars, orchVars, clientVars, writerVars>>

InitIntent == RouterIdle /\ IntentInit /\ StoreIdle /\ JobsIdle
              /\ ContextIdle /\ OrchIdle /\ ClientIdle /\ WritersIdle

NextIntent == RouteByIntent

SpecIntent == InitIntent /\ [][NextIntent]_vars

\* C9: route_by_intent classifies the text by case-insensitive substring
\* matching, first match wins, in the priority pricing, launch, sentiment,
\* overview/profile, revenue/financial, and routes to company_overview when
\* no keyword matches; "check pricing for launch" routes to pricing_change.
C9_IntentPriority ==
    routed # None =>
        LET text == lower(intent)
            P == any_in(text, PricingWords)
            L == any_in(text, LaunchWords)
            S == any_in(text, SentimentWords)
            O == any_in(text, OverviewWords)
            R == any_in(text, RevenueWords)
        IN  /\ P => routed = "pricing_change"
            /\ (~P /\ L) => routed = "product_launch"
            /\ (~P /\ ~L /\ S) => routed = "sentiment"
            /\ (~P /\ ~L /\ ~S /\ O) => routed = "company_overview"
            /\ (~P /\ ~L /\ ~S /\ ~O /\ R) => routed = "revenue_turnover"
            /\ (~P /\ ~L /\ ~S /\ ~O /\ ~R) => routed = "company_overview"
            /\ intent = CheckPricingForLaunch => routed = "pricing_change"

\* "check pricing for launch", which holds a pricing and a launch keyword,
\* has been routed.
C9_Witness ==
    /\ intent = CheckPricingForLaunch
    /\ any_in(lower(intent), LaunchWords)
    /\ routed = "pricing_change"

\* What the coroutine at position i returned or raised, from its own type and
\* outcome alone.
OwnResult(i) ==
    route_to_agent(agent_types[i], registry, entity_is_str, message_given,
                   IF task_outcome[i] \in ClientOutcomes THEN task_outcome[i]
                   ELSE "raise")

\* C13: the envelope of route_multiple is determined by the outcome of each
\* position's own type, whatever the order in which the invocations
\* completed: agent_results holds, under each declared type, the result of
\* that type's own invocation, and errors the message of its own failure
\* (the last such position when a type is declared more than once).
C13_EnvelopeIndependentOfCompletionOrder ==
    route_pc = "returned" =>
        LET N      == Len(agent_types)
            okPos  == {i \in 1..N : OwnResult(i).py # "exception"
                                    /\ ~HasKey(OwnResult(i), "error")}
            badPos == (1..N) \ okPos
            Last(P, i) == \A j \in P : agent_types[j] = agent_types[i] => j <= i
        IN  /\ DOMAIN response.agent_results = {agent_types[i] : i \in okPos}
            /\ DOMAIN response.errors = {agent_types[i] : i \in badPos}
            /\ \A i \in okPos : Last(okPos, i) =>
                  response.agent_results[agent_types[i]] = OwnResult(i)
            /\ \A i \in badPos : Last(badPos, i) =>
                  response.errors[agent_types[i]] =
                      IF OwnResult(i).py = "exception" THEN OwnResult(i).msg
                      ELSE OwnResult(i).d["error"]

\* Two distinct types were routed and ended differently: the first failed
\* inside the client, the second returned a JSON array.
C13_Witness ==
    /\ route_pc = "returned"
    /\ Len(agent_types) = 2
    /\ agent_types[1] # agent_types[2]
    /\ task_outcome = <<"error", "ok_list">>

\* The handles route_to_agent looks up for a type: the primary and, where one
\* is declared, the fallback.
Attempted(t) == {routing_map[t].agent_name, routing_map[t].fallback} \ {None}

NoHandle(t) == routing_map[t].agent_name = None

HandlesUnavailable(t) == ~NoHandle(t) /\ Attempted(t) \cap registry = {}

\* The handle names an error result carries, in its message or its
\* routing_info.
NamedHandles(d) ==
    (Range(d["error"]) \cap AgentNames)
    \cup (IF "routing_info" \in DOMAIN d
          THEN {d["routing_info"].agent_name, d["routing_info"].fallback} \ {None}
          ELSE {})
    \cup (IF "agent_name" \in DOMAIN d THEN {d["agent_name"]} ELSE {})

\* C14: route_to_agent for a type with no configured handle, or whose handle
\* and fallback are both missing from the registry, invokes no agent and
\* returns an error result that names the agent type, names every handle
\* that was attempted and lists the valid agent types.
C14_RoutingFailureInline ==
    \A i \in DOMAIN results :
        (results[i] # Pending
         /\ (NoHandle(agent_types[i]) \/ HandlesUnavailable(agent_types[i]))) =>
            /\ awaited(agent_types[i], registry, entity_is_str, message_given) = None
            /\ HasKey(results[i], "error")
            /\ HasKey(results[i], "agent_type")
            /\ results[i].d["agent_type"] = agent_types[i]
            /\ Attempted(agent_types[i]) \subseteq NamedHandles(results[i].d)
            /\ HasKey(results[i], "available_types")
            /\ Range(results[i].d["available_types"]) = AgentType

\* The routes that reached an agent which answered with a JSON body that is
\* no error result.
Answered == {"ok", "ok_meta", "ok_list"}

\* C15: on a successful route the payload returned is the agent's response
\* plus routing_metadata: equal to the response on every other key,
\* routing_metadata holding the resolved type, the handle invoked, the tool
\* and the description, and no key of the response overwritten.
C15_MetadataIsTheOnlyChange ==
    \A i \in DOMAIN results :
        (results[i] # Pending /\ task_outcome[i] \in Answered) =>
            LET handle == awaited(agent_types[i], registry, entity_is_str, message_given)
                a == invoke_agent(handle, task_outcome[i])
                r == results[i]
            IN  /\ r.py = "dict"
                /\ DOMAIN r.d = DOMAIN a.d \cup {"routing_metadata"}
                /\ \A k \in DOMAIN a.d \ {"routing_metadata"} : r.d[k] = a.d[k]
                /\ r.d["routing_metadata"] =
                       [agent_type  |-> agent_types[i],
                        agent_name  |-> handle,
                        tool_used   |-> routing_map[agent_types[i]].tool,
                        description |-> routing_map[agent_types[i]].description]
                /\ "routing_metadata" \notin DOMAIN a.d

(***************************************************************************)
(* core/context_builder.py: ContextBuilder.extract_and_store_facts         *)
(*                                                                         *)
(* An agent name is a text, a sequence of one-character strings.  A        *)
(* confidence_score is kept in tenths.                                     *)
(***************************************************************************)
\* The words the classification looks for: "profile", "financial", "price"
\* and "launch".
CategoryWord ==
    [company_profile |-> <<"p", "r", "o", "f", "i", "l", "e">>,
     financial_data  |-> <<"f", "i", "n", "a", "n", "c", "i", "a", "l">>,
     price_change    |-> <<"p", "r", "i", "c", "e">>,
     product_launch  |-> <<"l", "a", "u", "n", "c", "h">>]

\* word in agent_name.lower(), for the word of a branch
NameHas(agent_name, b) == Contains(lower(agent_name), CategoryWord[b])

\* the default of confidence_threshold, 0.5
confidence_threshold == 5

\* The agent names of the calls.
ExtractNames ==
    { <<"c", "o", "_", "p", "r", "o", "f", "i", "l", "e">>,
      <<"P", "R", "O", "F", "I", "L", "E", "_", "f", "i", "n", "a", "n", "c", "i", "a", "l">>,
      <<"F", "i", "n", "a", "n", "c", "i", "a", "l">>,
      <<"p", "r", "i", "c", "e", "_", "c", "h", "a", "n", "g", "e", "s">>,
      <<"l", "a", "u", "n", "c", "h", "e", "s">>,
      <<"P", "r", "i", "c", "e", "_", "l", "a", "u", "n", "c", "h">>,
      <<"p", "r", "i", "c", "i", "n", "g", "_", "c", "h", "a", "n", "g", "e">> }

\* The if / elif chain on agent_name: the branch a name takes.
classify(agent_name) ==
    IF NameHas(agent_name, "company_profile") THEN "company_profile"
    ELSE IF NameHas(agent_name, "financial_data") THEN "financial_data"
    ELSE IF NameHas(agent_name, "price_change") THEN "price_change"
    ELSE IF NameHas(agent_name, "product_launch") THEN "product_launch"
    ELSE None

\* The agent name a follow-up extraction is called with, as a text: the
\* value of an agent type (router mode) or a handle (legacy mode).
NameText ==
    [pricing_change |->
         <<"p", "r", "i", "c", "i", "n", "g", "_", "c", "h", "a", "n", "g", "e">>,
     product_launch |->
         <<"p", "r", "o", "d", "u", "c", "t", "_", "l", "a", "u", "n", "c", "h">>,
     sentiment |->
         <<"s", "e", "n", "t", "i", "m", "e", "n", "t">>,
     company_overview |->
         <<"c", "o", "m", "p", "a", "n", "y", "_", "o", "v", "e", "r", "v", "i", "e", "w">>,
     revenue_turnover |->
         <<"r", "e", "v", "e", "n", "u", "e", "_", "t", "u", "r", "n", "o", "v", "e", "r">>,
     agent_ac |->
         <<"a", "g", "e", "n", "t", "_", "a", "c">>,
     agent_zz |->
         <<"a", "g", "e", "n", "t", "_", "z", "z">>,
     agent_pl |->
         <<"a", "g", "e", "n", "t", "_", "p", "l">>]

TaskNames == {NameText[n] : n \in DOMAIN NameText}

\* The branch of each agent name of the calls.
Branch == [agent_name \in ExtractNames \cup TaskNames |-> classify(agent_name)]

\* expires_in_hours of the store_fact call of a branch
expires_in_hours(fact_type) == IF fact_type = "financial_data" THEN 168 ELSE 720

\* agent_output.get(key) of a key the output has
OutputGet(agent_output, key) == agent_output[DictGet(agent_output, key)][2].n

\* "confidence_score" in agent_output, and conf >= confidence_threshold
conf_given(agent_output) == "confidence_score" \in DictKeys(agent_output)

conf_passes(agent_output) ==
    /\ "confidence_score" \in DictKeys(agent_output)
    /\ OutputGet(agent_output, "confidence_score") >= confidence_threshold

\* extract_and_store_facts: the two tables after the call
extract_and_store_facts(facts, signals, entity, agent_output, agent_name, t) ==
    LET b == Branch[agent_name]
    IN  IF b \in {"company_profile", "financial_data", "product_launch"}
        THEN [facts   |-> IF conf_passes(agent_output)
                          THEN store_fact(facts, entity, b,
                                   [data |-> agent_output,
                                    confidence_score |->
                                        OutputGet(agent_output, "confidence_score"),
                                    source |-> agent_name],
                                   expires_in_hours(b), t)
                          ELSE facts,
              signals |-> signals]
        ELSE IF b = "price_change" /\ "change_percentage" \in DictKeys(agent_output)
        THEN [facts   |-> facts,
              signals |-> [store_signal(signals, entity, <<"price_change">>,
                               OutputGet(agent_output, "change_percentage"),
                               agent_output, t)
                             EXCEPT ![Len(signals) + 1].metadata =
                                        <<"agent", agent_name>>]]
        ELSE [facts |-> facts, signals |-> signals]

\* The items of an agent's response that the extraction reads, as the
\* key-value pairs of the output; a response that is a list has no key.
output_items(r) ==
    (IF HasKey(r, "confidence_score")
     THEN << <<"confidence_score", PyInt(r.d["confidence_score"])>> >> ELSE <<>>)
    \o (IF HasKey(r, "change_percentage")
        THEN << <<"change_percentage", PyInt(r.d["change_percentage"])>> >> ELSE <<>>)

\* After the response, the next scheduled background task runs.  It ends
\* normally or raises; a task that raises ends the run of the tasks.  An
\* extraction task is extract_and_store_facts(entity, agent_output,
\* agent_name) with the output and the name it was scheduled with.
RunBackgroundTask ==
    /\ orch_pc = "responded"
    /\ \A i \in DOMAIN background_tasks : background_tasks[i].state # "failed"
    /\ \E i \in DOMAIN background_tasks, end \in {"done", "failed"} :
         /\ background_tasks[i].state = "scheduled"
         /\ \A j \in 1..(i - 1) : background_tasks[j].state = "done"
         /\ background_tasks' = [background_tasks EXCEPT ![i].state = end]
         /\ IF background_tasks[i].func = "cleanup_expired" /\ end = "done"
            THEN /\ cached_facts' = cleanup_expired_facts(cached_facts, now)
                 /\ recent_outputs' = cleanup_expired_outputs(recent_outputs, now)
                 /\ UNCHANGED historical_signals
            ELSE IF background_tasks[i].func = "extract_and_store_facts" /\ end = "done"
            THEN LET item  == envelope.results[background_tasks[i].arg]
                     agent_output == IF "agent_output" \in DOMAIN item
                                     THEN item.agent_output ELSE item.output
                     after == extract_and_store_facts(cached_facts, historical_signals,
                                  OrchEntity, output_items(agent_output),
                                  NameText[background_tasks[i].arg], now)
                 IN  /\ cached_facts' = after.facts
                     /\ historical_signals' = after.signals
                     /\ UNCHANGED recent_outputs
            ELSE UNCHANGED <<cached_facts, recent_outputs, historical_signals>>
    /\ UNCHANGED <<request, orch_pc, envelope>>
    /\ UNCHANGED <<now, managed_storage, storage_index, store_log, fact_log, last_call>>
    /\ UNCHANGED <<routerVars, intentVars, jobVars, clientVars, writerVars>>

(***************************************************************************)
(* POST /orchestrate: one request, from its arrival to the end of its      *)
(* background tasks.                                                       *)
(***************************************************************************)
InitOrchestrate ==
    /\ registry \in OrchRegistries
    /\ agent_types = <<>>
    /\ entity_is_str = TRUE     \* OrchestrationRequest.entity is a str
    /\ message_given = TRUE     \* orchestrate always passes a message
    /\ results = <<>>
    /\ task_outcome = <<>>
    /\ route_pc = "returned"
    /\ response = EmptyEnvelope
    /\ IntentIdle /\ StoreIdle /\ JobsIdle /\ ContextIdle /\ OrchInit /\ ClientIdle /\ WritersIdle

NextOrchestrate ==
    \/ OrchestrateStart
    \/ OrchestrateLegacy
    \/ OrchestrateDefault
    \/ RouteTask
    \/ RouteGather
    \/ OrchestrateFinish
    \/ RunBackgroundTask

SpecOrchestrate == InitOrchestrate /\ [][NextOrchestrate]_vars

\* C11: when orchestrate (router mode) has responded, every requested
\* agent-type string is a key of exactly one of the envelope's results and
\* errors, an invalid string is a key of errors and was never routed,
\* success_count and error_count are the sizes of the two maps, and the two
\* maps are not both empty.
C11_EveryRequestedTypeInExactlyOneMap ==
    orch_pc = "responded" /\ Mode(request) = "router" =>
        LET requested == Range(request.agent_types)
            ok        == DOMAIN envelope.results
            bad       == DOMAIN envelope.errors
        IN  /\ \A x \in requested : (x \in ok) # (x \in bad)
            /\ \A x \in requested \ AgentType :
                  x \in bad /\ x \notin Range(agent_types)
            /\ envelope.success_count = Cardinality(ok)
            /\ envelope.error_count = Cardinality(bad)
            /\ ~(ok = {} /\ bad = {})

\* C12: a background task (fact/signal extraction, cleanup of expired data)
\* runs only after orchestrate has produced its envelope, and no run of a
\* task, failed or not, changes the envelope or the outcome of the call.
C12_BackgroundAfterEnvelope ==
    [][ (\E i \in DOMAIN background_tasks' : background_tasks'[i].state # "scheduled")
          => /\ envelope # NoEnvelope
             /\ envelope' = envelope
             /\ orch_pc = "responded" /\ orch_pc' = "responded" ]_vars

\* An extraction task has failed after an envelope with a result was returned.
C12_Witness ==
    /\ orch_pc = "responded"
    /\ envelope.success_count >= 1
    /\ \E i \in DOMAIN background_tasks :
         /\ background_tasks[i].func = "extract_and_store_facts"
         /\ background_tasks[i].state = "failed"

(***************************************************************************)
(* A2AClient.invoke_agent: one call, every outcome of every POST.          *)
(***************************************************************************)
InitClient ==
    /\ RouterIdle /\ IntentIdle /\ StoreIdle /\ JobsIdle /\ ContextIdle /\ OrchIdle
    /\ WritersIdle
    /\ ClientInit

NextClient == Post

SpecClient == InitClient /\ [][NextClient]_vars

Returned == client_pc = 0 /\ attempts # <<>>

\* C16: invoke_agent never raises: when a POST gave a JSON body the call
\* returns that body, and in every other case it returns a dict with an
\* "error" string.
C16_InvokeNeverRaises ==
    Returned =>
        LET last == attempts[Len(attempts)]
        IN  /\ client_result.py # "exception"
            /\ IsBody(last.outcome) =>
                  client_result = json_body(client_call.name, last.outcome)
            /\ ~IsBody(last.outcome) =>
                  /\ client_result.py = "dict"
                  /\ DOMAIN client_result.d = {"error"}
                  /\ client_result.d["error"] # <<>>

\* /chat answered 500, /invoke timed out: the call returned an error result.
C16_Witness ==
    /\ Returned
    /\ Len(attempts) = 2
    /\ attempts[1].outcome.kind = "status"
    /\ attempts[2].outcome.kind = "timeout"
    /\ HasKey(client_result, "error")

\* C17: invoke_agent posts to /chat first and, whenever an attempt fails, to
\* the next of /invoke, /message and /; it returns the body of the first
\* successful POST and an error result only after all four paths failed.
C17_FallbackOnEveryFailure ==
    Returned =>
        /\ \A i \in DOMAIN attempts :
              /\ attempts[i].path = Paths[i]
              /\ i < Len(attempts) => ~IsBody(attempts[i].outcome)
        /\ \/ IsBody(attempts[Len(attempts)].outcome)
           \/ Len(attempts) = Len(Paths)

(***************************************************************************)
(* The context store: cached_facts, historical_signals and recent_outputs  *)
(* under every interleaving of its calls.                                  *)
(***************************************************************************)
ContextFact == [data |-> Data1, confidence_score |-> 8, source |-> None]

InitContext ==
    /\ RouterIdle /\ IntentIdle /\ StoreInit /\ JobsIdle /\ ContextInit
    /\ OrchIdle /\ ClientIdle /\ WritersIdle

NextContext ==
    \/ StoreSignal(MaxWrites)
    \/ StoreOutput(MaxWrites)
    \/ ContextWrites < MaxWrites
       /\ StoreFact({<<<<"Acme">>, "company_profile">>}, {ContextFact}, {1}, MaxWrites)
    \/ GetSignals
    \/ GetRecentOutputs
    \/ FactsCleanupExpired
    \/ Tick

SpecContext == InitContext /\ [][NextContext]_vars

\* the age of an output at time t, in seconds
AgeSeconds(row, t) == (t - julianday(row.timestamp)) * 3600

\* C18: a get_recent_outputs call returns no output older than its own
\* ttl_seconds, and it leaves in the table exactly the outputs, of every
\* entity, whose age is within their TTL: the older ones are deleted, the
\* others untouched.
C18_OutputsLiveForTheirTtl ==
    [][ last_call'.op = "get_recent_outputs" =>
          /\ \A i \in DOMAIN last_call'.rows :
                AgeSeconds(last_call'.rows[i], now) <= last_call'.rows[i].ttl_seconds
          /\ recent_outputs' =
                SelectSeq(recent_outputs,
                          LAMBDA r : AgeSeconds(r, now) <= r.ttl_seconds) ]_vars

\* A read found nothing for its entity after purging an output whose TTL had
\* passed, and left an output still within its TTL in the table.
C18_Witness ==
    /\ last_call.op = "get_recent_outputs"
    /\ last_call.args.purged >= 1
    /\ last_call.rows = <<>>
    /\ recent_outputs # <<>>

\* C19: signals are append-only.  Every step keeps the signals stored so
\* far as they are; store_signal appends exactly one signal and changes no
\* other table, and no other call of the context store changes the table
\* of signals.
C19_SignalsAppendOnly ==
    [][ /\ Len(historical_signals') >= Len(historical_signals)
        /\ SubSeq(historical_signals', 1, Len(historical_signals)) = historical_signals
        /\ last_call'.op = "store_signal" =>
              /\ Len(historical_signals') = Len(historical_signals) + 1
              /\ cached_facts' = cached_facts
              /\ recent_outputs' = recent_outputs
        /\ last_call'.op # "store_signal" =>
              historical_signals' = historical_signals ]_vars

\* cleanup_expired has run over a table of two signals, later than hour 0.
C19_Witness ==
    /\ last_call.op = "cleanup_expired"
    /\ Len(historical_signals) = 2
    /\ historical_signals[1].entity = historical_signals[2].entity
    /\ historical_signals[1].signal_type = historical_signals[2].signal_type
    /\ now >= 1

\* C20: get_signals returns exactly the signals of the entity (and of the
\* signal type, when one is given) whose timestamp is later than now minus
\* hours_back, newest first.
C20_SignalsWithinLookback ==
    last_call.op = "get_signals" =>
        LET want == {i \in DOMAIN historical_signals :
                        /\ historical_signals[i].entity = last_call.entity
                        /\ last_call.args.t # <<>> =>
                              historical_signals[i].signal_type = last_call.args.t
                        /\ julianday(historical_signals[i].timestamp)
                              > last_call.at - last_call.args.n}
            got  == last_call.rows
        IN  /\ Len(got) = Cardinality(want)
            /\ Range(got) = {historical_signals[i] : i \in want}
            /\ \A i, j \in DOMAIN got :
                  i < j => julianday(got[i].timestamp) >= julianday(got[j].timestamp)

\* C21: ContextStorage.cleanup_expired deletes exactly the facts whose
\* expires_at is earlier than the time of the call and the outputs whose age
\* is greater than their ttl_seconds, keeps every other fact and output and
\* every signal as it is, and a second call at the same time changes nothing.
C21_CleanupExpiredExact ==
    [][ last_call'.op = "cleanup_expired" =>
          /\ cached_facts' =
                {r \in cached_facts : r.expires_at = NoExpiry \/ r.expires_at >= now}
          /\ recent_outputs' =
                SelectSeq(recent_outputs,
                          LAMBDA r : AgeSeconds(r, now) <= r.ttl_seconds)
          /\ historical_signals' = historical_signals
          /\ last_call.op = "cleanup_expired" =>
                /\ cached_facts' = cached_facts
                /\ recent_outputs' = recent_outputs ]_vars

\* cleanup_expired has deleted the only fact, whose expiry had passed, and
\* kept an output still within its TTL.
C21_Witness ==
    /\ last_call.op = "cleanup_expired"
    /\ FactWrites >= 1
    /\ cached_facts = {}
    /\ recent_outputs # <<>>

\* an index row whose storage_key is the key of no managed item
Orphan(x) == \A r \in managed_storage : r.storage_key # x.storage_key

\* C22: after any sequence of store and cleanup_expired calls every row of
\* storage_index refers to a row of managed_storage.
C22_NoOrphanIndexRow ==
    \A i \in DOMAIN storage_index : ~Orphan(storage_index[i])

(***************************************************************************)
(* Two writers on the shared store.  A connection's first INSERT opens a   *)
(* transaction and takes the database's write lock; its statements change  *)
(* its own view of the tables, and conn.commit() makes them the tables     *)
(* every connection sees and gives the lock back.  A writer that finds the *)
(* lock taken waits for it, and raises OperationalError (database is       *)
(* locked) when the wait outlasts the connection's timeout.                *)
(***************************************************************************)
WriterCalls ==
    { [op |-> "store", args |-> c] :
         c \in { [entity |-> <<"Acme">>, agent_type |-> <<"company_overview">>,
                  data |-> Data1,
                  o |-> CHOOSE o \in StoreOptions : o.storage_type = "fact"],
                 [entity |-> <<"Acme">>, agent_type |-> <<"company_overview">>,
                  data |-> Data1r,
                  o |-> CHOOSE o \in StoreOptions : o.storage_type = "output"],
                 [entity |-> <<"Acme">>, agent_type |-> <<"company_overview">>,
                  data |-> Data2,
                  o |-> CHOOSE o \in StoreOptions : o.storage_type = "fact"] } }
    \cup { [op |-> "store_signal", args |-> a] : a \in SignalArgs }
    \cup { [op |-> "store_output", args |-> a] : a \in OutputArgs }

WritersInit ==
    /\ writers \in [Writers -> { [pc |-> "start", op |-> c.op, args |-> c.args,
                                  row |-> <<>>, txn |-> NoTxn] : c \in WriterCalls }]
    /\ db_lock = None
    /\ commits = <<>>

\* whether a connection's first write statement gets the write lock
write_lock_ignored(lock) == TRUE

write_lock_free(lock) == lock = None

\* the tables as committed
Committed ==
    [managed_storage |-> managed_storage, storage_index |-> storage_index,
     historical_signals |-> historical_signals, recent_outputs |-> recent_outputs]

\* the INSERT of store_signal and store_output, the INSERT OR REPLACE of store
WriterInsert(w) ==
    LET c == writers[w]
        a == c.args
    IN  /\ c.pc = "start"
        /\ write_lock_free(db_lock)
        /\ db_lock' = w
        /\ CASE c.op = "store" ->
                  LET row == managed_row(a.entity, a.agent_type, a.data, a.o, now)
                  IN  writers' = [writers EXCEPT ![w] =
                         [c EXCEPT !.pc = IF a.o.index_fields # <<>>
                                          THEN "index" ELSE "commit",
                                   !.row = <<row>>,
                                   !.txn = [Committed EXCEPT !.managed_storage =
                                              insert_or_replace(managed_storage, row)]]]
             [] c.op = "store_signal" ->
                  writers' = [writers EXCEPT ![w] =
                     [c EXCEPT !.pc = "commit",
                               !.txn = [Committed EXCEPT !.historical_signals =
                                          store_signal(historical_signals, a.entity,
                                                       a.signal_type, a.signal_value,
                                                       a.signal_data, now)]]]
             [] c.op = "store_output" ->
                  writers' = [writers EXCEPT ![w] =
                     [c EXCEPT !.pc = "commit",
                               !.txn = [Committed EXCEPT !.recent_outputs =
                                          store_output(recent_outputs,
                                              [entity |-> a.entity,
                                               agent_name |-> a.agent_name, at |-> now],
                                              a.entity, a.agent_name,
                                              json_dumps(Data1, FALSE),
                                              a.ttl_seconds, now)]]]
        /\ UNCHANGED commits
        /\ UNCHANGED <<routerVars, intentVars, storeVars, jobVars, ctxVars, orchVars,
                       clientVars>>

\* store: the DELETE and the INSERTs on storage_index
WriterIndex(w) ==
    LET c == writers[w]
    IN  /\ c.pc = "index"
        /\ writers' = [writers EXCEPT ![w] =
              [c EXCEPT !.pc = "commit",
                        !.txn = [c.txn EXCEPT !.storage_index =
                                   store_index(c.txn.storage_index,
                                               c.row[1].storage_key, c.args.data,
                                               c.args.o.index_fields)]]]
        /\ UNCHANGED <<db_lock, commits>>
        /\ UNCHANGED <<routerVars, intentVars, storeVars, jobVars, ctxVars, orchVars,
                       clientVars>>

\* conn.commit(), conn.close() and the return
WriterCommit(w) ==
    LET c == writers[w]
    IN  /\ c.pc = "commit"
        /\ managed_storage' = c.txn.managed_storage
        /\ storage_index' = c.txn.storage_index
        /\ historical_signals' = c.txn.historical_signals
        /\ recent_outputs' = c.txn.recent_outputs
        /\ db_lock' = None
        /\ commits' = Append(commits, w)
        /\ writers' = [writers EXCEPT ![w] = [c EXCEPT !.pc = "returned", !.txn = NoTxn]]
        /\ UNCHANGED <<now, cached_facts, store_log, fact_log, last_call>>
        /\ UNCHANGED <<routerVars, intentVars, jobVars, orchVars, clientVars>>

\* the wait for the lock outlasts the timeout: OperationalError
WriterLocked(w) ==
    LET c == writers[w]
    IN  /\ c.pc = "start"
        /\ db_lock \notin {None, w}
        /\ writers' = [writers EXCEPT ![w] = [c EXCEPT !.pc = "raised"]]
        /\ UNCHANGED <<db_lock, commits>>
        /\ UNCHANGED <<routerVars, intentVars, storeVars, jobVars, ctxVars, orchVars,
                       clientVars>>

InitWriters ==
    /\ RouterIdle /\ IntentIdle /\ StoreInit /\ JobsIdle /\ ContextInit
    /\ OrchIdle /\ ClientIdle /\ WritersInit

NextWriters ==
    \/ \E w \in Writers : WriterInsert(w)
    \/ \E w \in Writers : WriterIndex(w)
    \/ \E w \in Writers : WriterCommit(w)
    \/ \E w \in Writers : WriterLocked(w)
    \/ Tick

SpecWriters == InitWriters /\ [][NextWriters]_vars

\* the writers whose call of the given name has returned
ReturnedWriters(op) == {w \in Writers : writers[w].pc = "returned" /\ writers[w].op = op}

\* the last writer to commit a store under the given storage key
LastStore(key) ==
    LET at == {i \in DOMAIN commits :
                  /\ writers[commits[i]].op = "store"
                  /\ writers[commits[i]].row[1].storage_key = key}
    IN  commits[CHOOSE i \in at : \A j \in at : j <= i]

\* C23: under every interleaving of two writers, the stores that have
\* returned leave one row per storage key, the row of the last of them to
\* commit, with index rows that refer to it, carry the values of its data
\* and are not repeated (they are that writer's own index rows when it gave
\* index_fields); and every store_signal and store_output call that has
\* returned has its record in the table, once per call.
C23_ConcurrentWritersSafe ==
    /\ \A w \in ReturnedWriters("store") :
          LET key  == writers[w].row[1].storage_key
              last == writers[LastStore(key)]
              idx  == SelectSeq(storage_index, LAMBDA x : x.storage_key = key)
          IN  /\ {r \in managed_storage : r.storage_key = key} = {last.row[1]}
              /\ \A i \in DOMAIN idx :
                    /\ idx[i].index_key \in DictKeys(last.args.data)
                    /\ idx[i].index_value =
                          str(last.args.data[DictGet(last.args.data, idx[i].index_key)][2])
                    /\ \A j \in DOMAIN idx : idx[j].index_key = idx[i].index_key => j = i
              /\ last.args.o.index_fields # <<>> =>
                    idx = index_rows(key, last.args.data, last.args.o.index_fields, 1)
    /\ \A a \in SignalArgs :
          Cardinality({i \in DOMAIN historical_signals :
                          /\ historical_signals[i].entity = a.entity
                          /\ historical_signals[i].signal_type = a.signal_type
                          /\ historical_signals[i].signal_value = a.signal_value})
             = Cardinality({w \in ReturnedWriters("store_signal") : writers[w].args = a})
    /\ \A a \in OutputArgs :
          Cardinality({i \in DOMAIN recent_outputs :
                          /\ recent_outputs[i].entity = a.entity
                          /\ recent_outputs[i].agent_name = a.agent_name
                          /\ recent_outputs[i].ttl_seconds = a.ttl_seconds})
             = Cardinality({w \in ReturnedWriters("store_output") : writers[w].args = a})

\* Both writers stored the same content, with different options, and both
\* have returned; the writer that gave no index_fields committed last.
C23_Witness ==
    /\ ReturnedWriters("store") = Writers
    /\ writers["w1"].row[1].storage_key = writers["w2"].row[1].storage_key
    /\ writers["w1"].row # writers["w2"].row
    /\ writers[commits[2]].args.o.index_fields = <<>>
    /\ storage_index # <<>>

(***************************************************************************)
(* The analysis jobs with the background tasks scheduled fairly: a task    *)
(* that can take its next step takes it, whatever requests arrive.  The    *)
(* step from "analyzing" covers every answer and every exception of the    *)
(* generation engine.  Of the requests, the runs meet the one that writes  *)
(* to the ledger, the alerts request; the section requests only read.      *)
(***************************************************************************)
NextLiveJobs ==
    \/ CreateAnalysisJob
    \/ RunStart
    \/ RunFinish
    \/ RunExcept
    \/ AlertsStart
    \/ AlertsFinish

LiveJobs ==
    /\ InitJobs /\ [][NextLiveJobs]_vars
    /\ WF_vars(RunStart) /\ WF_vars(RunFinish) /\ WF_vars(RunExcept)

\* the job ledger refused the update of the outer except of the job's run
LedgerRefused(job_id) == job_id \in DOMAIN job_pc /\ job_pc[job_id] = "raised"

GeneratedSections == {"company_overview", "revenue_turnover"}

\* the sections with an entry under results
InResults(result) ==
    {"company_overview" : x \in {result.overview} \ {"absent"}}
    \cup {"revenue_turnover" : x \in {result.revenue} \ {"absent"}}

\* C25: a run that gets as far as writing its result ends completed whatever
\* its sections did, each generated section being either under results or
\* named under errors; a job becomes failed only in the handler of the
\* run's outer except, and then with the {"error": ...} result.
C25_SectionFailureKeepsJobCompleted ==
    [][ \A job_id \in DOMAIN analysis_jobs :
          LET before == analysis_jobs[job_id]
              after  == analysis_jobs'[job_id]
          IN  /\ (job_pc[job_id] = "analyzing" /\ job_pc'[job_id] = "done") =>
                    /\ after.status = "completed"
                    /\ after.result.kind = "final"
                    /\ InResults(after.result) \cup after.result.errors = GeneratedSections
                    /\ InResults(after.result) \cap after.result.errors = {}
              /\ (after.status = "failed" /\ before.status # "failed") =>
                    /\ job_pc[job_id] = "except"
                    /\ after.result.kind = "error" ]_vars

\* A job is completed with its overview generation named under errors and
\* its revenue section under results.
C25_Witness ==
    \E job_id \in DOMAIN analysis_jobs :
        /\ analysis_jobs[job_id].status = "completed"
        /\ analysis_jobs[job_id].result.errors = {"company_overview"}
        /\ InResults(analysis_jobs[job_id].result) = {"revenue_turnover"}

(***************************************************************************)
(* The job ledger on its own: create_job, update_job and the clock.        *)
(***************************************************************************)
\* ghost: a call on the ledger; given is <<>> for result=None and <<result>>
\* for a result argument
LedgerCall(op, job_id, status, given) ==
    [op |-> op, at |-> now, entity |-> <<job_id>>, include_expired |-> FALSE,
     args |-> [t |-> <<status>>, n |-> 0, purged |-> 0], rows |-> given, out |-> <<>>]

\* the result arguments of the update_job calls: None, {}, a final_result
\* and the result of a failed run
ResultArgs ==
    {<<>>, <<EmptyResult>>, <<ErrorResult>>,
     <<final_result(generate_section("dict"), generate_section("raise"))>>}

CreateJob ==
    /\ \E job_id \in JobIds \ DOMAIN analysis_jobs :
         /\ analysis_jobs' = create_job(analysis_jobs, job_id,
                                        IF job_id = "job-1" THEN <<"Acme">> ELSE <<"Beta">>,
                                        "queued", now)
         /\ last_call' = LedgerCall("create_job", job_id, "queued", <<>>)
    /\ UNCHANGED <<now, cached_facts, managed_storage, storage_index, store_log, fact_log>>
    /\ UNCHANGED <<job_pc, alerts_pc, last_http>>
    /\ UNCHANGED <<routerVars, intentVars, ctxVars, orchVars, clientVars, writerVars>>

UpdateJob ==
    /\ \E job_id \in JobIds \cup {UnknownId}, status \in {"analyzing", "completed"},
          given \in ResultArgs :
         /\ analysis_jobs' = update_job(analysis_jobs, job_id, status,
                                        IF given = <<>> THEN NoResult ELSE given[1], now)
         /\ last_call' = LedgerCall("update_job", job_id, status, given)
    /\ UNCHANGED <<now, cached_facts, managed_storage, storage_index, store_log, fact_log>>
    /\ UNCHANGED <<job_pc, alerts_pc, last_http>>
    /\ UNCHANGED <<routerVars, intentVars, ctxVars, orchVars, clientVars, writerVars>>

InitLedger ==
    /\ RouterIdle /\ IntentIdle /\ StoreInit /\ JobsInit /\ ContextIdle
    /\ OrchIdle /\ ClientIdle /\ WritersIdle

NextLedger ==
    \/ CreateJob
    \/ UpdateJob
    \/ Tick

SpecLedger == InitLedger /\ [][NextLedger]_vars

\* C26: update_job(job_id, status, result) sets the job's status and
\* updated_at, replaces its result by the result argument when one is given
\* and keeps the stored result when none is given, keeps its entity and
\* created_at, and leaves every other job as it is.
C26_UpdateJobFrame ==
    [][ last_call'.op = "update_job" =>
          LET job_id == last_call'.entity[1]
              status == last_call'.args.t[1]
              given  == last_call'.rows
          IN  /\ DOMAIN analysis_jobs' = DOMAIN analysis_jobs
              /\ \A k \in DOMAIN analysis_jobs \ {job_id} :
                    analysis_jobs'[k] = analysis_jobs[k]
              /\ job_id \in DOMAIN analysis_jobs =>
                    /\ analysis_jobs'[job_id].status = status
                    /\ analysis_jobs'[job_id].updated_at = now
                    /\ analysis_jobs'[job_id].entity = analysis_jobs[job_id].entity
                    /\ analysis_jobs'[job_id].created_at = analysis_jobs[job_id].created_at
                    /\ analysis_jobs'[job_id].result =
                          IF given # <<>> THEN given[1]
                          ELSE analysis_jobs[job_id].result ]_vars

(***************************************************************************)
(* POST /orchestrate: what a request persists, and the mode it enters.     *)
(***************************************************************************)
\* The rows of recent_outputs stored for the pair (OrchEntity, key).
OutputsFor(key) ==
    {i \in DOMAIN recent_outputs :
        recent_outputs[i].entity = OrchEntity /\ recent_outputs[i].agent_name = <<key>>}

\* C27: when orchestrate has responded in router or legacy mode, with
\* store_outputs=true every successful agent result of the envelope has
\* exactly one row of recent_outputs for (entity, agent key), whatever
\* include_context is; with store_outputs=false no row was persisted.
C27_StoreOutputsPersistsEachResult ==
    orch_pc = "responded" /\ Mode(request) \in {"router", "legacy"} =>
        IF request.store_outputs
        THEN \A key \in DOMAIN envelope.results : Cardinality(OutputsFor(key)) = 1
        ELSE recent_outputs = <<>>

\* C28: the fan-out of the default mode goes to exactly the four primary
\* agent types and is entered if and only if the request supplies neither
\* agent_types nor agents; supplied agent types are the only types routed,
\* and supplied agent names (with no agent types) are the keys of the
\* envelope.
C28_DefaultModeIffNothingSupplied ==
    orch_pc \in {"routing", "responded"} =>
        /\ (agent_types = all_types)
              <=> (request.agent_types = <<>> /\ request.agents = <<>>)
        /\ agent_types = all_types => "sentiment" \notin Range(agent_types)
        /\ request.agent_types # <<>> =>
              Range(agent_types) \subseteq Range(request.agent_types)
        /\ (request.agent_types = <<>> /\ request.agents # <<>>
              /\ orch_pc = "responded") =>
              /\ agent_types = <<>>
              /\ DOMAIN envelope.results \cup DOMAIN envelope.errors
                     = Range(request.agents)

(***************************************************************************)
(* ContextBuilder.extract_and_store_facts: the calls of the check of the   *)
(* classification.                                                        *)
(***************************************************************************)
\* The agent outputs of the calls: with and without a confidence_score
\* (0.4, 0.5, 0.9), with and without a change_percentage.
ExtractOutputs ==
    { << <<"summary", PyStr("text")>> >>,
      << <<"confidence_score", PyInt(4)>>, <<"change_percentage", PyInt(12)>> >>,
      << <<"summary", PyStr("text")>>, <<"confidence_score", PyInt(5)>> >>,
      << <<"confidence_score", PyInt(9)>>, <<"change_percentage", PyInt(7)>> >> }

ExtractWrites == Cardinality(cached_facts) + Len(historical_signals)

\* One call of extract_and_store_facts with the default threshold.
ExtractAndStoreFacts ==
    /\ ExtractWrites < MaxWrites
    /\ \E agent_name \in ExtractNames, agent_output \in ExtractOutputs :
         LET after == extract_and_store_facts(cached_facts, historical_signals,
                          OrchEntity, agent_output, agent_name, now)
         IN  /\ cached_facts' = after.facts
             /\ historical_signals' = after.signals
             /\ last_call' = ReadWith("extract_and_store_facts", OrchEntity,
                                 [t |-> agent_name, n |-> 0, purged |-> 0],
                                 <<>>, agent_output)
    /\ UNCHANGED <<now, managed_storage, storage_index, store_log, fact_log>>
    /\ UNCHANGED recent_outputs
    /\ UNCHANGED <<routerVars, intentVars, jobVars, orchVars, clientVars, writerVars>>

InitExtract ==
    /\ RouterIdle /\ IntentIdle /\ StoreInit /\ JobsIdle /\ ContextInit
    /\ OrchIdle /\ ClientIdle /\ WritersIdle

NextExtract ==
    \/ ExtractAndStoreFacts
    \/ Tick

SpecExtract == InitExtract /\ [][NextExtract]_vars

\* The step upserts the fact (OrchEntity, fact_type) of the call in last_call':
\* afterwards the one fact of that key holds the output, its confidence, the
\* agent name as source and the expiry of the type, and every other fact is
\* as it was.
Upserted(fact_type) ==
    LET agent_name   == last_call'.args.t
        agent_output == last_call'.out
    IN  /\ \E r \in cached_facts' :
              /\ r.entity = OrchEntity /\ r.fact_type = fact_type
              /\ r.fact_data = json_dumps(agent_output, FALSE)
              /\ r.confidence_score = OutputGet(agent_output, "confidence_score")
              /\ r.source = agent_name
              /\ r.updated_at = now
              /\ r.expires_at = now + (IF fact_type = "financial_data" THEN 168 ELSE 720)
              /\ \A q \in cached_facts' :
                    q.entity = r.entity /\ q.fact_type = r.fact_type => q = r
        /\ {q \in cached_facts' : q.fact_type # fact_type}
               = {q \in cached_facts : q.fact_type # fact_type}

\* the categories that store a fact
FactCategories == {"company_profile", "financial_data", "product_launch"}

\* the categories in the order the classification tries them
CategoryOrder == <<"company_profile", "financial_data", "price_change", "product_launch">>

\* the first category of CategoryOrder whose word a name contains (None if none)
FirstCategory(agent_name) ==
    IF \E i \in DOMAIN CategoryOrder : NameHas(agent_name, CategoryOrder[i])
    THEN CategoryOrder[CHOOSE i \in DOMAIN CategoryOrder :
                           /\ NameHas(agent_name, CategoryOrder[i])
                           /\ \A j \in 1..(i - 1) : ~NameHas(agent_name, CategoryOrder[j])]
    ELSE None

\* For each agent name of the calls: the categories whose word it contains,
\* and the first of them.
Categories == [agent_name \in ExtractNames |->
                  {b \in DOMAIN CategoryWord : NameHas(agent_name, b)}]

Category == [agent_name \in ExtractNames |-> FirstCategory(agent_name)]

\* the output of the call has a confidence_score of at least the threshold
GateOpen ==
    /\ "confidence_score" \in DictKeys(last_call'.out)
    /\ OutputGet(last_call'.out, "confidence_score") >= 5

\* C29: a call of extract_and_store_facts whose agent name contains
\* "profile", "financial" or "launch" upserts the company_profile (720 h),
\* financial_data (168 h) or product_launch (720 h) fact with the output's
\* confidence if and only if that confidence is at least the threshold;
\* below the threshold, or for a name of no category, facts and signals are
\* left unchanged.
C29_GateOnEveryMatchingName ==
    [][ last_call'.op = "extract_and_store_facts" =>
          LET agent_name == last_call'.args.t
          IN  /\ \A fact_type \in FactCategories :
                    fact_type \in Categories[agent_name] =>
                        IF GateOpen THEN Upserted(fact_type)
                        ELSE cached_facts' = cached_facts
                               /\ historical_signals' = historical_signals
              /\ Categories[agent_name] = {} =>
                    cached_facts' = cached_facts
                      /\ historical_signals' = historical_signals ]_vars

\* C29, amended: the same with the category of a name being the first of
\* profile, financial, price, launch it contains; a call stores at most the
\* fact of that category, and stores a fact in no other case.
C29_GateOnFirstMatchingCategory ==
    [][ last_call'.op = "extract_and_store_facts" =>
          LET agent_name == last_call'.args.t
              category   == Category[agent_name]
          IN  /\ \A fact_type \in FactCategories :
                    category = fact_type =>
                        /\ historical_signals' = historical_signals
                        /\ IF GateOpen THEN Upserted(fact_type)
                           ELSE cached_facts' = cached_facts
              /\ category \notin FactCategories => cached_facts' = cached_facts
              /\ category = None => historical_signals' = historical_signals ]_vars

\* A product_launch fact stored at the threshold itself, after a call with a
\* lower confidence left the store empty.
C29_Witness ==
    /\ last_call.op = "extract_and_store_facts"
    /\ last_call.args.t = <<"l", "a", "u", "n", "c", "h", "e", "s">>
    /\ "confidence_score" \in DictKeys(last_call.out)
    /\ OutputGet(last_call.out, "confidence_score") = 5
    /\ \E r \in cached_facts :
          r.fact_type = "product_launch" /\ r.confidence_score = 5
            /\ r.expires_at = r.updated_at + 720

\* C30: a call of extract_and_store_facts whose agent name contains "price"
\* and neither "profile" nor "financial" appends one price_change signal,
\* whatever the output's confidence_score, with the output's
\* change_percentage as signal_value, and stores no fact.
C30_PriceSignalOnEveryCall ==
    [][ (/\ last_call'.op = "extract_and_store_facts"
         /\ "price_change" \in Categories[last_call'.args.t]
         /\ "company_profile" \notin Categories[last_call'.args.t]
         /\ "financial_data" \notin Categories[last_call'.args.t]) =>
          /\ cached_facts' = cached_facts
          /\ Len(historical_signals') = Len(historical_signals) + 1
          /\ SubSeq(historical_signals', 1, Len(historical_signals)) = historical_signals
          /\ LET r == historical_signals'[Len(historical_signals')]
             IN  /\ r.entity = OrchEntity
                 /\ r.signal_type = <<"price_change">>
                 /\ "change_percentage" \in DictKeys(last_call'.out)
                 /\ r.signal_value = OutputGet(last_call'.out, "change_percentage") ]_vars

(***************************************************************************)
(* core/context_builder.py: ContextBuilder.build_context and               *)
(* _summarize_signals.  An average is kept as the pair of the sum and the  *)
(* number of values it divides.                                            *)
(***************************************************************************)
RECURSIVE SumSeq(_)
SumSeq(q) == IF q = <<>> THEN 0 ELSE Head(q) + SumSeq(Tail(q))

MinOf(q) == CHOOSE x \in Range(q) : \A y \in Range(q) : x <= y
MaxOf(q) == CHOOSE x \in Range(q) : \A y \in Range(q) : x >= y

\* [s["signal_value"] for s in sig_list if s["signal_value"] is not None]
values_of(sig_list) ==
    LET kept == SelectSeq(sig_list, LAMBDA s : s.signal_value # NULL)
    IN  [i \in DOMAIN kept |-> kept[i].signal_value]

\* the entry of one signal type
summary_entry(sig_list) ==
    LET values == values_of(sig_list)
    IN  IF values # <<>>
        THEN [count |-> Len(values), min |-> MinOf(values), max |-> MaxOf(values),
              avg |-> [sum |-> SumSeq(values), len |-> Len(values)],
              latest |-> values[1], latest_timestamp |-> <<>>]
        ELSE [count |-> Len(sig_list), min |-> NULL, max |-> NULL,
              avg |-> [sum |-> NULL, len |-> NULL],
              latest |-> NULL, latest_timestamp |-> <<sig_list[1].timestamp>>]

\* the keys of an entry: those of the numeric form or those of the other one
summary_keys(entry) ==
    IF entry.latest_timestamp = <<>>
    THEN {"count", "min", "max", "avg", "latest"}
    ELSE {"count", "latest_timestamp"}

\* ContextBuilder._summarize_signals: by_type keeps the signals of a type in
\* the order of the list
_summarize_signals(signals) ==
    [sig_type \in {signals[i].signal_type : i \in DOMAIN signals} |->
        summary_entry(SelectSeq(signals, LAMBDA s : s.signal_type = sig_type))]

\* (entity, signal_type, signal_value) of the store_signal calls before a
\* build_context
SummarySignalArgs ==
    { [entity |-> <<"Acme">>, signal_type |-> <<"price_change">>, signal_value |-> 3],
      [entity |-> <<"Acme">>, signal_type |-> <<"price_change">>, signal_value |-> 7],
      [entity |-> <<"Acme">>, signal_type |-> <<"price_change">>, signal_value |-> NULL],
      [entity |-> <<"Acme">>, signal_type |-> <<"product_launch">>, signal_value |-> NULL],
      [entity |-> <<"Beta">>, signal_type |-> <<"price_change">>, signal_value |-> 5] }

StoreSummarySignal ==
    /\ Len(historical_signals) < MaxStores
    /\ \E a \in SummarySignalArgs :
         historical_signals' = store_signal(historical_signals, a.entity, a.signal_type,
                                            a.signal_value, <<>>, now)
    /\ last_call' = Call("store_signal")
    /\ UNCHANGED <<now, cached_facts, managed_storage, storage_index, store_log, fact_log>>
    /\ UNCHANGED recent_outputs
    /\ UNCHANGED <<routerVars, intentVars, jobVars, orchVars, clientVars, writerVars>>

\* build_context(entity) with its defaults: get_all_facts, get_signals over
\* the last 168 hours and the summary of what it returned, get_recent_outputs
\* (which deletes the expired outputs).  rows is context["historical_signals"],
\* out is context["signal_summary"] (<<>> when the key is not set).
BuildContext ==
    /\ \E entity \in Entities :
         LET ids == get_signals_rows(historical_signals, entity, <<>>,
                                     DefaultHoursBack, now)
         IN  \E q \in Orderings(ids, [i \in ids |-> julianday(historical_signals[i].timestamp)]) :
               LET signals == [i \in DOMAIN q |-> get_signals_dict(historical_signals[q[i]])]
               IN  last_call' = ReadWith("build_context", entity,
                                    [t |-> <<>>, n |-> DefaultHoursBack, purged |-> 0],
                                    signals,
                                    IF signals # <<>> THEN _summarize_signals(signals)
                                    ELSE <<>>)
    /\ recent_outputs' = cleanup_expired_outputs(recent_outputs, now)
    /\ UNCHANGED <<now, cached_facts, managed_storage, storage_index, store_log, fact_log>>
    /\ UNCHANGED historical_signals
    /\ UNCHANGED <<routerVars, intentVars, jobVars, orchVars, clientVars, writerVars>>

InitSummary ==
    /\ RouterIdle /\ IntentIdle /\ StoreInit /\ JobsIdle /\ ContextInit
    /\ OrchIdle /\ ClientIdle /\ WritersIdle

NextSummary ==
    \/ StoreSummarySignal
    \/ BuildContext
    \/ Tick

SpecSummary == InitSummary /\ [][NextSummary]_vars

\* the signals of a type in a list, and the most recent of them
OfType(signals, sig_type) == SelectSeq(signals, LAMBDA s : s.signal_type = sig_type)

MostRecent(sig_list) ==
    {i \in DOMAIN sig_list :
        \A j \in DOMAIN sig_list :
            julianday(sig_list[i].timestamp) >= julianday(sig_list[j].timestamp)}

\* C31: the signal summary of a built context has one entry per signal type
\* among the signals of the lookback window.  For a type with numeric values
\* the entry is {count, min, max, avg, latest}: count is the number of signals
\* of the type, min <= avg <= max, and latest is the value of a most recent
\* signal of the type.  For a type without numeric values it is {count,
\* latest_timestamp} with the timestamp of its most recent signal.
C31_SummaryPerSignalType ==
    (last_call.op = "build_context" /\ last_call.rows # <<>>) =>
        LET signals == last_call.rows
            summary == last_call.out
        IN  /\ DOMAIN summary = {signals[i].signal_type : i \in DOMAIN signals}
            /\ \A sig_type \in DOMAIN summary :
                  LET sig_list == OfType(signals, sig_type)
                      e        == summary[sig_type]
                  IN  IF \E i \in DOMAIN sig_list : sig_list[i].signal_value # NULL
                      THEN /\ summary_keys(e) = {"count", "min", "max", "avg", "latest"}
                           /\ e.count = Len(sig_list)
                           /\ e.min * e.avg.len <= e.avg.sum
                           /\ e.avg.sum <= e.max * e.avg.len
                           /\ \E i \in MostRecent(sig_list) :
                                 e.latest = sig_list[i].signal_value
                      ELSE /\ summary_keys(e) = {"count", "latest_timestamp"}
                           /\ e.count = Len(sig_list)
                           /\ \E i \in MostRecent(sig_list) :
                                 e.latest_timestamp = <<sig_list[i].timestamp>>

(***************************************************************************)
(* core/orchestrator.py: compute_confidence.  A dict is the sequence of    *)
(* the kinds of its values, a list its length; a score is kept in          *)
(* hundredths.                                                             *)
(***************************************************************************)
MaxKeys  == 3       \* most keys of a dict given to compute_confidence
MaxItems == 9       \* most items of a list given to compute_confidence

\* The kinds of a value of the dict:
\*   none                 None
\*   empty_list, list     a list or dict without / with items
\*   empty_str, blank_str, str   "", whitespace only, any other str
\*   int, bool            a number (bool is an int)
\*   bad_str              an object whose __str__ raises
ValueKinds == {"none", "empty_list", "list", "empty_str", "blank_str", "str",
               "int", "bool", "bad_str"}

\* The arguments: dicts, lists, and values that are neither.
ConfidenceInputs ==
    [kind : {"dict"}, values : UNION {[1..n -> ValueKinds] : n \in 0..MaxKeys}, n : {0}]
    \cup [kind : {"list"}, values : {<<>>}, n : 0..MaxItems]
    \cup [kind : {"str", "int", "none"}, values : {<<>>}, n : {0}]

Min2(a, b) == IF a <= b THEN a ELSE b
Max2(a, b) == IF a >= b THEN a ELSE b

\* the values the loop counts in non_empty and in signals
counts_non_empty(v) == v \in {"list", "str", "int", "bool"}
counts_signal(v)    == v \in {"int", "bool"}

\* non_empty >= max(1, total_keys // 2)
enough_fields_floor(non_empty, total_keys) == non_empty >= total_keys \div 2

enough_fields(non_empty, total_keys) == non_empty >= Max2(1, total_keys \div 2)

\* round(x, 2) of x = num / den hundredths: the nearest hundredth; where x is
\* half-way between two hundredths the float decides, and either is taken.
round2(num, den) ==
    LET lo == num \div den
        r  == num % den
    IN  IF 2 * r < den THEN {lo}
        ELSE IF 2 * r > den THEN {lo + 1}
        ELSE {lo, lo + 1}

\* compute_confidence(data): the results it can return
compute_confidence(data) ==
    IF data.kind = "dict"
    THEN IF \E i \in DOMAIN data.values : data.values[i] = "bad_str"
         THEN {[score |-> 0, reason |-> <<"unable to estimate">>]}
         ELSE LET total_keys == Len(data.values)
                  non_empty  == Cardinality({i \in DOMAIN data.values :
                                                counts_non_empty(data.values[i])})
                  signals    == Cardinality({i \in DOMAIN data.values :
                                                counts_signal(data.values[i])})
                  den          == Max2(1, total_keys)
                  signal_bonus == Min2(30, signals * 5)
                  \* 0.5 * base + signal_bonus, in hundredths, over den
                  num          == 50 * non_empty + signal_bonus * den
                  clamped      == Max2(0, Min2(100 * den, num))
                  reason_parts ==
                      (IF signals > 0 THEN <<"numeric data present">> ELSE <<>>)
                      \o (IF enough_fields(non_empty, total_keys)
                          THEN <<"sufficient fields populated">> ELSE <<>>)
              IN  {[score |-> s,
                    reason |-> IF reason_parts = <<>>
                               THEN <<"limited data available">>
                               ELSE reason_parts] : s \in round2(clamped, den)}
    ELSE IF data.kind = "list"
    THEN {[score |-> Max2(0, Min2(100, 30 + Min2(40, data.n * 5))),
           reason |-> <<"list length indicates available data">>]}
    ELSE {[score |-> 0, reason |-> <<"unable to estimate">>]}

\* A call of a function about to be made: rows holds its arguments.
CallOf(op, arguments) ==
    [op |-> op, at |-> 0, entity |-> <<>>, include_expired |-> FALSE,
     args |-> NoArgs, rows |-> arguments, out |-> <<>>]

\* The state before the call of a function on one of the given argument lists.
PureInit(op, inputs) ==
    /\ now = 0
    /\ cached_facts = {}
    /\ managed_storage = {}
    /\ storage_index = <<>>
    /\ store_log = <<>>
    /\ fact_log = <<>>
    /\ last_call \in {CallOf(op, arguments) : arguments \in inputs}

\* The call of compute_confidence: rows is the argument, out the result.
ComputeConfidence ==
    /\ last_call.op = "call compute_confidence"
    /\ \E result \in compute_confidence(last_call.rows[1]) :
         last_call' = [last_call EXCEPT !.op = "compute_confidence",
                                        !.out = <<result>>]
    /\ UNCHANGED <<now, cached_facts, managed_storage, storage_index, store_log, fact_log>>
    /\ UNCHANGED <<routerVars, intentVars, jobVars, ctxVars, orchVars, clientVars, writerVars>>

InitConfidence ==
    /\ RouterIdle /\ IntentIdle /\ JobsIdle /\ ContextIdle
    /\ OrchIdle /\ ClientIdle /\ WritersIdle
    /\ PureInit("call compute_confidence", {<<data>> : data \in ConfidenceInputs})

NextConfidence == ComputeConfidence

SpecConfidence == InitConfidence /\ [][NextConfidence]_vars

\* C32: for a dict or a list compute_confidence returns a score within
\* [0, 1]; the empty dict scores 0.0 with the reason "limited data
\* available"; an argument that is neither a dict nor a list, and one whose
\* evaluation raises, yields the score 0.0 with the reason "unable to
\* estimate".
C32_ConfidenceWithinBounds ==
    last_call.op = "compute_confidence" =>
        LET data   == last_call.rows[1]
            result == last_call.out[1]
        IN  /\ data.kind \in {"dict", "list"} => result.score >= 0 /\ result.score <= 100
            /\ (data.kind = "dict" /\ data.values = <<>>) =>
                  result = [score |-> 0, reason |-> <<"limited data available">>]
            /\ (data.kind \notin {"dict", "list"}
                  \/ \E i \in DOMAIN data.values : data.values[i] = "bad_str") =>
                  result = [score |-> 0, reason |-> <<"unable to estimate">>]

\* The empty dict was scored, and so was a dict whose every value counts.
C32_Witness ==
    /\ last_call.op = "compute_confidence"
    /\ last_call.rows[1].kind = "dict"
    /\ last_call.rows[1].values = <<>>
    /\ last_call.out[1].reason = <<"limited data available">>

(***************************************************************************)
(* core/orchestrator.py: classify_risk_severity, build_executive_summary   *)
(* and generate_followups, applied to the results of a job.                *)
(*                                                                         *)
(* results is kept by what the three functions read of it:                 *)
(*   kps        the number of key_products of the overview                 *)
(*   gr         growth_rate: absent, a number, a text float() parses, a    *)
(*              text it does not parse                                     *)
(*   trend      revenue_trend ("" when absent)                             *)
(*   pricing    the pricing output: absent or empty ("none"), one record   *)
(*              ("dict") or a list of records, each by its change_type     *)
(*   launches   the number of records of the launch output                 *)
(*   sentiment  the sentiment output: absent, without sentiment_score, or  *)
(*              with a score (in hundredths); with its list of risks       *)
(***************************************************************************)
MaxRisks == 2       \* most risks of a sentiment output

GrowthArgs ==
    { [kind |-> "none", v |-> 0], [kind |-> "text", v |-> 0],
      [kind |-> "numeric text", v |-> -2],
      [kind |-> "num", v |-> -2], [kind |-> "num", v |-> 0], [kind |-> "num", v |-> 3] }

TrendArgs == {"", "declining", "stable", "growing"}

PricingArgs ==
    { [kind |-> "none", types |-> <<>>],
      [kind |-> "dict", types |-> <<"decrease">>],
      [kind |-> "list", types |-> <<"increase">>],
      [kind |-> "list", types |-> <<"increase", "decrease">>] }

RiskNames == <<"r1", "r2", "r3", "r4">>

SentimentArgs ==
    [kind : {"absent"}, score : {0}, risks : {<<>>}]
    \cup [kind : {"unscored"}, score : {0},
          risks : {SubSeq(RiskNames, 1, n) : n \in 0..MaxRisks}]
    \cup [kind : {"scored"}, score : {0, 19, 20, 30},
          risks : {SubSeq(RiskNames, 1, n) : n \in 0..MaxRisks}]

JobResults ==
    [kps : {0, 1}, gr : GrowthArgs, trend : TrendArgs, pricing : PricingArgs,
     launches : {0, 2}, sentiment : SentimentArgs]

\* grv: float(gr) when gr is given and float() takes it, else None
grv_of(gr) == [given |-> gr.kind \in {"num", "numeric text"}, v |-> gr.v]

\* price_dirs: the truthy change_type values of the pricing records
price_dirs(pricing) ==
    IF pricing.kind \in {"list", "dict"}
    THEN {pricing.types[i] : i \in DOMAIN pricing.types} \ {""}
    ELSE {}

\* the rule of the first if / elif of the loop
growth_rule_trend_only(tr, grv) ==
    IF tr = "declining" THEN "High"
    ELSE IF tr = "stable" THEN "Medium"
    ELSE "Low"

growth_rule(tr, grv) ==
    IF tr = "declining" \/ (grv.given /\ grv.v < 0) THEN "High"
    ELSE IF tr = "stable" \/ (grv.given /\ grv.v = 0) THEN "Medium"
    ELSE "Low"

\* classify_risk_severity(risks, fin, pricing)
classify_risk_severity(risks, tr, gr, pricing) ==
    LET grv  == grv_of(gr)
        rule == growth_rule(tr, grv)
        dec  == "decrease" \in price_dirs(pricing)
        reason_parts ==
            (IF rule = "High" THEN <<"negative growth indicators">>
             ELSE IF rule = "Medium" THEN <<"flat growth indicators">> ELSE <<>>)
            \o (IF dec THEN <<"pricing decrease detected">> ELSE <<>>)
    IN  [i \in DOMAIN risks |->
            [risk     |-> risks[i],
             severity |-> IF dec THEN "High" ELSE rule,
             reason   |-> IF reason_parts = <<>> THEN <<"limited signals">>
                          ELSE reason_parts]]

\* pr_count, pl_count
pr_count(pricing) ==
    IF pricing.kind = "list" THEN Len(pricing.types)
    ELSE IF pricing.kind = "dict" THEN 1 ELSE 0

\* sent_obj.get("sentiment_score") or 0.0, and sent_obj.get("risks") or []
s_score_of(sentiment) == IF sentiment.kind = "scored" THEN sentiment.score ELSE 0
risks_of(sentiment)   == IF sentiment.kind = "absent" THEN <<>> ELSE sentiment.risks

\* the two tests on the outlook, in the order of the code
outlook_never_positive(positive, negative) ==
    IF negative THEN "Negative" ELSE "Neutral"

outlook(positive, negative) ==
    IF negative THEN "Negative" ELSE IF positive THEN "Positive" ELSE "Neutral"

\* the sentiment threshold below which the outlook is Negative, 0.2
neg_below_none(s_score) == FALSE

neg_below(s_score) == s_score < 20

\* build_executive_summary(job_id, results) where it does not raise: the
\* outlook and the highlights
executive_summary(job_results) ==
    LET grv     == grv_of(job_results.gr)
        s_score == s_score_of(job_results.sentiment)
        sev     == classify_risk_severity(risks_of(job_results.sentiment), job_results.trend,
                                          job_results.gr, job_results.pricing)
        high_ct == Cardinality({i \in DOMAIN sev : sev[i].severity = "High"})
        positive == /\ grv.given /\ grv.v > 0
                    /\ s_score >= 30
                    /\ high_ct = 0
                    /\ job_results.trend # "declining"
        negative == \/ grv.given /\ grv.v < 0
                    \/ job_results.trend = "declining"
                    \/ neg_below(s_score)
                    \/ high_ct > 0
    IN  [overall_outlook |-> outlook(positive, negative),
         key_highlights  |->
             (IF grv.given THEN <<"Growth">> ELSE <<>>)
             \o (IF job_results.trend # "" THEN <<"Trend">> ELSE <<>>)
             \o (IF pr_count(job_results.pricing) > 0 THEN <<"Pricing changes">> ELSE <<>>)
             \o (IF job_results.launches > 0 THEN <<"Product launches">> ELSE <<>>)]

\* len(qs) < 3
few_questions_never(qs) == FALSE

few_questions(qs) == Len(qs) < 3

\* generate_followups(results) where it does not raise: the questions, each
\* by its subject
followups(job_results) ==
    LET grv == grv_of(job_results.gr)
        qs  == (IF job_results.kps > 0 THEN <<"top key product">> ELSE <<>>)
               \o (IF grv.given /\ grv.v < 0 THEN <<"growth threats">> ELSE <<>>)
               \o (IF pr_count(job_results.pricing) > 0 THEN <<"pricing changes">> ELSE <<>>)
               \o (IF job_results.launches > 0 THEN <<"product launches">> ELSE <<>>)
               \o (IF job_results.trend = "declining" THEN <<"declining revenue">> ELSE <<>>)
        all == IF few_questions(qs) THEN Append(qs, "competitive strategies") ELSE qs
    IN  SubSeq(all, 1, Min2(5, Len(all)))

\* The calls of the three functions on the results of a job.
ClassifyRiskSeverity ==
    /\ last_call.op = "call insights"
    /\ LET job_results == last_call.rows[1]
       IN  last_call' = [last_call EXCEPT
               !.op = "classify_risk_severity",
               !.out = <<classify_risk_severity(risks_of(job_results.sentiment),
                             job_results.trend, job_results.gr, job_results.pricing)>>]
    /\ UNCHANGED <<now, cached_facts, managed_storage, storage_index, store_log, fact_log>>
    /\ UNCHANGED <<routerVars, intentVars, jobVars, ctxVars, orchVars, clientVars, writerVars>>

BuildExecutiveSummary ==
    /\ last_call.op = "call insights"
    /\ last_call' = [last_call EXCEPT
           !.op = "build_executive_summary",
           !.out = <<executive_summary(last_call.rows[1])>>]
    /\ UNCHANGED <<now, cached_facts, managed_storage, storage_index, store_log, fact_log>>
    /\ UNCHANGED <<routerVars, intentVars, jobVars, ctxVars, orchVars, clientVars, writerVars>>

GenerateFollowups ==
    /\ last_call.op = "call insights"
    /\ last_call' = [last_call EXCEPT
           !.op = "generate_followups",
           !.out = <<followups(last_call.rows[1])>>]
    /\ UNCHANGED <<now, cached_facts, managed_storage, storage_index, store_log, fact_log>>
    /\ UNCHANGED <<routerVars, intentVars, jobVars, ctxVars, orchVars, clientVars, writerVars>>

InitInsights ==
    /\ RouterIdle /\ IntentIdle /\ JobsIdle /\ ContextIdle
    /\ OrchIdle /\ ClientIdle /\ WritersIdle
    /\ PureInit("call insights", {<<job_results>> : job_results \in JobResults})

NextInsights ==
    \/ ClassifyRiskSeverity
    \/ BuildExecutiveSummary
    \/ GenerateFollowups

SpecInsights == InitInsights /\ [][NextInsights]_vars

\* What the claims say of the results in last_call.
GrowthNegative == last_call.rows[1].gr.kind \in {"num", "numeric text"}
                    /\ last_call.rows[1].gr.v < 0
GrowthZero     == last_call.rows[1].gr.kind \in {"num", "numeric text"}
                    /\ last_call.rows[1].gr.v = 0
GrowthPositive == last_call.rows[1].gr.kind \in {"num", "numeric text"}
                    /\ last_call.rows[1].gr.v > 0
Declining      == last_call.rows[1].trend = "declining"
PricingDecrease ==
    \E i \in DOMAIN last_call.rows[1].pricing.types :
        last_call.rows[1].pricing.types[i] = "decrease"
RisksGiven ==
    IF last_call.rows[1].sentiment.kind = "absent" THEN <<>>
    ELSE last_call.rows[1].sentiment.risks
SentimentScore ==
    IF last_call.rows[1].sentiment.kind = "scored"
    THEN last_call.rows[1].sentiment.score ELSE 0
HighRiskExists ==
    RisksGiven # <<>> /\ (Declining \/ GrowthNegative \/ PricingDecrease)

\* C33: classify_risk_severity returns one entry per risk, in input order.
\* The severity is High iff the trend is declining or the growth rate is
\* negative or a pricing record has change_type decrease; Medium iff not High
\* and the trend is stable or the growth rate is 0; Low otherwise.  The
\* reason is "limited signals" exactly when no rule triggered, a declining
\* trend is reported as "negative growth indicators", and a pricing decrease
\* gives High whatever the trend.
C33_RiskSeverityRules ==
    last_call.op = "classify_risk_severity" =>
        LET sev    == last_call.out[1]
            high   == Declining \/ GrowthNegative \/ PricingDecrease
            medium == ~high /\ (last_call.rows[1].trend = "stable" \/ GrowthZero)
        IN  /\ Len(sev) = Len(RisksGiven)
            /\ \A i \in DOMAIN sev :
                  /\ sev[i].risk = RisksGiven[i]
                  /\ sev[i].severity = "High" <=> high
                  /\ sev[i].severity = "Medium" <=> medium
                  /\ sev[i].severity = "Low" <=> ~high /\ ~medium
                  /\ sev[i].reason = <<"limited signals">> <=> ~high /\ ~medium
                  /\ Declining =>
                        \E k \in DOMAIN sev[i].reason :
                            sev[i].reason[k] = "negative growth indicators"
                  /\ PricingDecrease => sev[i].severity = "High"

\* Risks classified High on a pricing decrease alone, the trend growing.
C33_Witness ==
    /\ last_call.op = "classify_risk_severity"
    /\ last_call.rows[1].trend = "growing"
    /\ GrowthPositive
    /\ PricingDecrease
    /\ Len(last_call.out[1]) = 2
    /\ last_call.out[1][2].severity = "High"

\* C34: overall_outlook is Negative iff growth < 0 or the trend is declining
\* or the sentiment score < 0.2 or a high-severity risk exists; Positive iff
\* growth > 0 and sentiment score >= 0.3 and no high-severity risk and the
\* trend is not declining; Neutral otherwise.
C34_OutlookRules ==
    last_call.op = "build_executive_summary" =>
        LET out      == last_call.out[1].overall_outlook
            negative == GrowthNegative \/ Declining \/ SentimentScore < 20
                          \/ HighRiskExists
            positive == GrowthPositive /\ SentimentScore >= 30 /\ ~HighRiskExists
                          /\ ~Declining
        IN  /\ out = "Negative" <=> negative
            /\ out = "Positive" <=> positive
            /\ out = "Neutral" <=> ~negative /\ ~positive

\* Growth positive and sentiment 0.3, yet Negative for a high-severity risk.
C34_Witness ==
    /\ last_call.op = "build_executive_summary"
    /\ GrowthPositive /\ SentimentScore = 30 /\ ~Declining
    /\ HighRiskExists
    /\ last_call.out[1].overall_outlook = "Negative"

\* the conditional questions that hold for the results in last_call, in the
\* fixed order
ConditionalQuestions ==
    (IF last_call.rows[1].kps > 0 THEN <<"top key product">> ELSE <<>>)
    \o (IF GrowthNegative THEN <<"growth threats">> ELSE <<>>)
    \o (IF last_call.rows[1].pricing.kind # "none" THEN <<"pricing changes">> ELSE <<>>)
    \o (IF last_call.rows[1].launches > 0 THEN <<"product launches">> ELSE <<>>)
    \o (IF Declining THEN <<"declining revenue">> ELSE <<>>)

\* C35: generate_followups returns between 1 and 5 questions without
\* duplicates: the conditional questions (top key product, negative growth,
\* pricing changes, launches, declining trend) in that order, each iff its
\* condition holds, followed by the generic strategy question iff fewer than
\* 3 conditional questions were generated.
C35_FollowupQuestions ==
    last_call.op = "generate_followups" =>
        LET qs == last_call.out[1]
        IN  /\ Len(qs) >= 1 /\ Len(qs) <= 5
            /\ \A i, j \in DOMAIN qs : i # j => qs[i] # qs[j]
            /\ qs = IF Len(ConditionalQuestions) < 3
                    THEN Append(ConditionalQuestions, "competitive strategies")
                    ELSE ConditionalQuestions

\* All five conditional questions and no generic one.
C35_Witness ==
    /\ last_call.op = "generate_followups"
    /\ Len(ConditionalQuestions) = 5
    /\ last_call.out[1] = ConditionalQuestions

\* C39: with no sentiment output, or one whose sentiment_score is absent or
\* 0, the outlook is Negative whatever the growth rate, trend and risks;
\* an outlook of Positive or Neutral has a sentiment score of at least 0.2.
C39_NoSentimentIsNegative ==
    last_call.op = "build_executive_summary" =>
        /\ (last_call.rows[1].sentiment.kind \in {"absent", "unscored"}
              \/ last_call.rows[1].sentiment.score = 0) =>
              last_call.out[1].overall_outlook = "Negative"
        /\ last_call.out[1].overall_outlook \in {"Positive", "Neutral"} =>
              /\ last_call.rows[1].sentiment.kind = "scored"
              /\ last_call.rows[1].sentiment.score >= 20

\* No sentiment output, growth positive, trend growing, no risk: Negative.
C39_Witness ==
    /\ last_call.op = "build_executive_summary"
    /\ last_call.rows[1].sentiment.kind = "absent"
    /\ GrowthPositive
    /\ last_call.rows[1].trend = "growing"
    /\ last_call.rows[1].pricing.kind = "none"
    /\ last_call.out[1].overall_outlook = "Negative"


(***************************************************************************)
(* Router mode: what the follow-up extraction makes of the results.        *)
(***************************************************************************)
\* The response has been sent and every background task has run to its end.
TasksAllDone ==
    /\ orch_pc = "responded"
    /\ \A i \in DOMAIN background_tasks : background_tasks[i].state = "done"

\* The output of the result the envelope has for an agent-type string.
ResultOutput(agent_type_str) ==
    LET item == envelope.results[agent_type_str]
    IN  IF "agent_output" \in DOMAIN item THEN item.agent_output ELSE item.output

\* The entry the claim expects for a result of an agent type.
PromotedKind ==
    [company_overview |-> "company_profile", revenue_turnover |-> "financial_data",
     pricing_change |-> "price_change", product_launch |-> "product_launch"]

\* The result of the type qualifies: a confidence of at least 0.5 or, for a
\* pricing change, a change_percentage.
Qualifies(agent_type_str) ==
    LET items == output_items(ResultOutput(agent_type_str))
    IN  IF agent_type_str = "pricing_change"
        THEN "change_percentage" \in DictKeys(items)
        ELSE conf_passes(items)

\* The stores hold the entry for the result of the type.
Promoted(agent_type_str) ==
    IF agent_type_str = "pricing_change"
    THEN \E i \in DOMAIN historical_signals :
            /\ historical_signals[i].entity = OrchEntity
            /\ historical_signals[i].signal_type = <<"price_change">>
    ELSE \E r \in cached_facts :
            /\ r.entity = OrchEntity
            /\ r.fact_type = PromotedKind[agent_type_str]

\* C36: in router mode with extract_facts, once the background tasks have
\* run, every qualifying result of company_overview, revenue_turnover,
\* pricing_change and product_launch has its entry in the facts or signals
\* store: a company_profile, financial_data or product_launch fact, or a
\* price_change signal.
C36_RouterResultsPromoted ==
    (Mode(request) = "router" /\ request.extract_facts /\ TasksAllDone) =>
        \A agent_type_str \in DOMAIN envelope.results \cap DOMAIN PromotedKind :
            Qualifies(agent_type_str) => Promoted(agent_type_str)


(***************************************************************************)
(* route_to_agent: the fallback handle of product_launch.                  *)
(***************************************************************************)
\* The outcomes of an invocation that are failures.
InvokeFailures == {"error", "timeout", "raise"}

\* Route i is a finished product_launch route that reached line 125 with the
\* primary handle agent_sc in the registry, and whose invocation failed.
PrimaryFailed(i) ==
    /\ agent_types[i] = "product_launch"
    /\ results[i] # Pending
    /\ "agent_sc" \in registry
    /\ ~(message_given /\ ~entity_is_str)
    /\ task_outcome[i] \in InvokeFailures

\* The message of the failure of an invocation of a handle.
FailureOf(name, outcome) ==
    LET a == invoke_agent(name, outcome)
    IN  IF a.py = "exception" THEN a.msg ELSE a.d["error"]

\* The handle an error result or a response with routing metadata names.
HandleOf(r) ==
    IF HasKey(r, "routing_metadata") THEN r.d["routing_metadata"].agent_name
    ELSE IF HasKey(r, "agent_name") THEN r.d["agent_name"]
    ELSE None

\* C37: the fallback agent_pl of product_launch is invoked only when the
\* primary agent_sc is absent from the registry; when agent_sc is registered
\* and its invocation fails, the result of the route is the failure of
\* agent_sc (its error message, under the handle agent_sc) and agent_pl is
\* not invoked.
C37_FallbackOnlyWhenPrimaryAbsent ==
    \A i \in DOMAIN results :
        /\ (agent_types[i] = "product_launch" /\ results[i] # Pending
            /\ awaited("product_launch", registry, entity_is_str, message_given)
                   = "agent_pl")
              => "agent_sc" \notin registry
        /\ PrimaryFailed(i) =>
              /\ awaited("product_launch", registry, entity_is_str, message_given)
                     = "agent_sc"
              /\ HasKey(results[i], "error")
              /\ results[i].d["error"] = FailureOf("agent_sc", task_outcome[i])
              /\ HandleOf(results[i]) = "agent_sc"
              /\ "answer" \notin DOMAIN results[i].d

C37_Witness ==
    \E i \in DOMAIN results :
        /\ PrimaryFailed(i)
        /\ "agent_pl" \in registry
        /\ task_outcome[i] = "raise"
        /\ HandleOf(results[i]) = "agent_sc"


(***************************************************************************)
(* The managed store with entity and agent-type texts that contain the     *)
(* ':' of the key derivation.  A text is the sequence of its parts, each   *)
(* ':' a part of its own, so that concatenation of texts is \o.            *)
(***************************************************************************)
\* The (entity, agent_type) pairs of the store calls: two pairs whose texts
\* join to the same "entity:agent_type", and two pairs without ':'.
OwnerPairs ==
    { << <<"Acme", ":", "EU">>, <<"pricing">> >>,
      << <<"Acme">>, <<"EU", ":", "pricing">> >>,
      << <<"Acme">>, <<"pricing">> >>,
      << <<"Beta">>, <<"pricing">> >> }

OwnerCalls ==
    { [entity |-> p[1], agent_type |-> p[2], data |-> d,
       o |-> CHOOSE o \in StoreOptions : o.storage_type = "output"] :
        p \in OwnerPairs, d \in {Data1, Data2} }

InitOwners == InitManaged

NextOwners ==
    \/ ManagedStore(OwnerCalls, MaxStores)
    \/ Tick

SpecOwners == InitOwners /\ [][NextOwners]_vars

\* The step is a call of store.
StoreStep == last_call'.op = "store" /\ store_log' # store_log

\* The rows of the table before a call of store that were stored for another
\* (entity, agent_type) pair than the one of the call.
RowsOfOthers ==
    LET row == last_call'.rows[1]
    IN  {r \in managed_storage :
            r.entity # row.entity \/ r.agent_type # row.agent_type}

\* C38: a call of store for one (entity, agent_type) pair leaves every row
\* that was stored for a different pair in the table, unchanged, also when
\* the entity or the agent type contains ':'.
C38_StoreKeepsRowsOfOtherOwners ==
    [][StoreStep => RowsOfOthers \subseteq managed_storage']_vars


(***************************************************************************)
(* invoke_agent: the error of a call whose paths all answered non-success. *)
(***************************************************************************)
\* Every path was posted to and each answered with a non-success status.
AllPathsRefused ==
    /\ Returned
    /\ Len(attempts) = Len(Paths)
    /\ \A i \in DOMAIN attempts : attempts[i].outcome.kind = "status"

\* C40: when every path answered with a non-success status, the error
\* result of invoke_agent is "HTTP <status>: <body>" with the status code
\* and the body of the response to the first POST, the one to /chat.
C40_ErrorIsOfPrimaryAttempt ==
    AllPathsRefused =>
        /\ attempts[1].path = "/chat"
        /\ client_result = PyDict("error" :>
               <<"HTTP ", attempts[1].outcome.status_code, ": ",
                 response_text(attempts[1])>>)

\* /chat answered 404 and the last path, /, answered 500.
C40_Witness ==
    /\ AllPathsRefused
    /\ attempts[1].outcome.status_code = 404
    /\ attempts[Len(Paths)].outcome.status_code = 500
    /\ attempts[Len(Paths)].path = "/"
    /\ HasKey(client_result, "error")
====
